---------------------------- MODULE Spec2Model ----------------------------
(***************************************************************************)
(* smart-fetcher: the experimental retrieval agent (ReACTAgent.run), its   *)
(* HTTP route, the link verifier it filters citations with, and the        *)
(* natural-language search: tag extractor, search service and route.       *)
(*                                                                         *)
(* Text is modelled as sequences of one-character strings, so that prefix  *)
(* tests, the UUID pattern, lower-casing and substring search are computed *)
(* the way the Python code computes them.                                  *)
(***************************************************************************)
EXTENDS Integers, Sequences, FiniteSets, TLC

VARIABLES
    index,               \* ResourceStore._resources: the ids present in the Resource Index
    verifier,            \* the LinkVerifier handed to the agent: "store", "format" or "stub"
    lm,                  \* ReACTAgent.lm: "set" or "None"
    react_agent,         \* ReACTAgent.react_agent: "set" or "None"
    current_session_id,  \* ReACTAgent.current_session_id
    nRuns,               \* number of run() invocations started so far (uuid4 source)
    run,                 \* the locals of the run() invocation in progress
    log,                 \* AgentLogger lines emitted during the current invocation
    hlog,                \* hallucination_logger calls made during the current invocation
    calls,               \* how often the model, the NL search and verify_link were invoked
    http,                \* the response of run_experimental_agent for the current request
    toolRet,             \* the value the last tool call handed back to the tool-loop
    lv,                  \* a verify_internal_link call: its input and its result
    resource_store,      \* ResourceStore._resources of the NL search, in insertion order
    available_tags,      \* NLTagExtractor.available_tags
    extractor,           \* NLTagExtractor.extractor: "set" or "None"
    ambiguity_threshold, \* NLTagExtractor.ambiguity_threshold, in hundredths
    default_cap,         \* NLSearchService.default_cap
    nl,                  \* the extract / search / nl_search call last made and its outcome
    backend,             \* the model backend as it is now: reachable, model loaded
    health_snapshot,     \* app.state.health_snapshot: Nothing until startup has written it
    snapshot_writes,     \* how often app.state.health_snapshot was assigned
    probes,              \* check_connection / check_model_running calls made so far
    nReq,                \* requests served since startup
    hreq,                \* the /health or /search request last served and its response
    threads,             \* run() invocations of concurrent callers: each one's locals
    emitter,             \* for every line of log, the session id of the run that emitted it
    twin,                \* a second run() invocation, given another max_tokens
    loop_kwargs          \* the keyword arguments each of the two tool-loop calls was given

vars == << index, verifier, lm, react_agent, current_session_id, nRuns, run,
           log, hlog, calls, http, toolRet, lv,
           resource_store, available_tags, extractor, ambiguity_threshold,
           default_cap, nl,
           backend, health_snapshot, snapshot_writes, probes, nReq, hreq,
           threads, emitter, twin, loop_kwargs >>

\* the state of the agent and of the link-verifier probe
agentVars == << index, verifier, lm, react_agent, current_session_id, nRuns, run,
                log, hlog, calls, http, toolRet, lv >>

\* the state of the natural-language search
nlVars == << resource_store, available_tags, extractor, ambiguity_threshold,
             default_cap, nl >>

\* the backend and the health snapshot
healthVars == << backend, health_snapshot, snapshot_writes, probes, nReq, hreq >>

\* concurrent callers of run()
threadVars == << threads, emitter >>

\* a pair of run() invocations that differ in max_tokens
twinVars == << twin, loop_kwargs >>

\* the state of the application around the agent and the NL search
appVars == << healthVars, threadVars, twinVars >>

None == "None"

----------------------------------------------------------------------------
(* Text helpers                                                            *)

Min(a, b) == IF a < b THEN a ELSE b

Rep(c, n) == [i \in 1..n |-> c]

\* str.startswith
StartsWith(s, p) == Len(s) >= Len(p) /\ SubSeq(s, 1, Len(p)) = p

\* `needle in haystack` for str
Contains(s, p) ==
    \E i \in 0..(Len(s) - Len(p)) : SubSeq(s, i + 1, i + Len(p)) = p

UpperAlpha ==
    << "A","B","C","D","E","F","G","H","I","J","K","L","M",
       "N","O","P","Q","R","S","T","U","V","W","X","Y","Z" >>

LowerAlpha ==
    << "a","b","c","d","e","f","g","h","i","j","k","l","m",
       "n","o","p","q","r","s","t","u","v","w","x","y","z" >>

LowerChar(c) ==
    IF \E i \in 1..Len(UpperAlpha) : UpperAlpha[i] = c
    THEN LowerAlpha[CHOOSE i \in 1..Len(UpperAlpha) : UpperAlpha[i] = c]
    ELSE c

\* str.lower
Lower(s) == [i \in 1..Len(s) |-> LowerChar(s[i])]

----------------------------------------------------------------------------
(* Link verifier: src/utils/link_verifier.py                               *)

RESOURCES_PREFIX == << "/","r","e","s","o","u","r","c","e","s","/" >>

HTTP_PREFIX == << "h","t","t","p",":","/","/" >>

HTTPS_PREFIX == << "h","t","t","p","s",":","/","/" >>

\* the group lengths of UUID_PATTERN: {8}-{4}-{4}-{4}-{12}
UuidGroups == << 8, 4, 4, 4, 12 >>

\* [0-9a-f] under re.IGNORECASE
HexChars ==
    { "0","1","2","3","4","5","6","7","8","9",
      "a","b","c","d","e","f","A","B","C","D","E","F" }

RECURSIVE GroupEnd(_)
\* the position of the last character of group g, dashes included
GroupEnd(g) == IF g = 0 THEN 0 ELSE GroupEnd(g - 1) + UuidGroups[g] + (IF g > 1 THEN 1 ELSE 0)

UuidLen == GroupEnd(Len(UuidGroups))

DashPositions == { GroupEnd(g) + 1 : g \in 1..(Len(UuidGroups) - 1) }

\* the pattern between ^ and $: hex groups joined by "-"
UuidShape(s) ==
    /\ Len(s) = UuidLen
    /\ \A i \in 1..UuidLen :
          IF i \in DashPositions THEN s[i] = "-" ELSE s[i] \in HexChars

\* UUID_PATTERN.match(s): "$" also matches just before a newline that ends the string
UUID_PATTERN_match(s) ==
    \/ UuidShape(s)
    \/ /\ Len(s) = UuidLen + 1
       /\ s[Len(s)] = "\n"
       /\ UuidShape(SubSeq(s, 1, UuidLen))

\* An optional text value: Nothing is Python's None, Some(x) is the value x
Nothing == << >>

Some(x) == << x >>

\* ResourceStore.get_by_uuid: a dict lookup, None when absent
get_by_uuid(store, uuid) == IF uuid \in store THEN Some(uuid) ELSE Nothing

LinkVerificationResult(valid, uuid, error) ==
    [ valid |-> valid, uuid |-> uuid, error |-> error ]

verify_internal_link(link, store) ==
    IF ~StartsWith(link, RESOURCES_PREFIX)
    THEN LinkVerificationResult(FALSE, Nothing, "Link must start with /resources/")
    ELSE LET uuid_part == SubSeq(link, Len(RESOURCES_PREFIX) + 1, Len(link)) IN
         IF ~UUID_PATTERN_match(uuid_part)
         THEN LinkVerificationResult(FALSE, Nothing, "Invalid UUID format")
         ELSE IF get_by_uuid(store, uuid_part) = Nothing
              THEN LinkVerificationResult(FALSE, Some(uuid_part),
                                          "UUID not found in resource store")
              ELSE LinkVerificationResult(TRUE, Some(uuid_part), None)

\* a verify_link that never consults the store
verify_link_FormatOnly(wiring, store, url) ==
    IF StartsWith(url, RESOURCES_PREFIX)
    THEN UUID_PATTERN_match(SubSeq(url, Len(RESOURCES_PREFIX) + 1, Len(url)))
    ELSE StartsWith(url, HTTP_PREFIX) \/ StartsWith(url, HTTPS_PREFIX)

\* LinkVerifier.verify_link; resource_store is None in the "format" wiring
verify_link(wiring, store, url) ==
    IF StartsWith(url, RESOURCES_PREFIX)
    THEN IF wiring = "store"
         THEN verify_internal_link(url, store).valid
         ELSE UUID_PATTERN_match(SubSeq(url, Len(RESOURCES_PREFIX) + 1, Len(url)))
    ELSE StartsWith(url, HTTP_PREFIX) \/ StartsWith(url, HTTPS_PREFIX)

----------------------------------------------------------------------------
(* Identifiers and links used as inputs                                    *)

RECURSIVE UuidFrom(_, _)
\* an identifier whose every hex position holds c, groups 1..g
UuidFrom(c, g) ==
    IF g = 0 THEN << >>
    ELSE UuidFrom(c, g - 1) \o (IF g > 1 THEN << "-" >> ELSE << >>) \o Rep(c, UuidGroups[g])

Uuid(c) == UuidFrom(c, Len(UuidGroups))

\* the stores a verify_internal_link call is tried against
StoreChoices == { {}, { Uuid("a") }, { Uuid("a"), Uuid("1") }, { Uuid("b"), Uuid("1") } }

LinkPrefixes ==
    { RESOURCES_PREFIX,
      << "/","r","e","s","o","u","r","c","e","/" >>,
      << "/","R","e","s","o","u","r","c","e","s","/" >>,
      << "/","w","r","o","n","g","/" >>,
      HTTPS_PREFIX,
      << >> }

LinkBodies ==
    { Uuid("a"), Uuid("b"), Uuid("1"), Uuid("A"), Uuid("g"),
      SubSeq(Uuid("a"), 1, UuidLen - 1),
      [i \in 1..UuidLen |-> IF i \in DashPositions THEN "_" ELSE "a"],
      << "n","o","t","-","a","-","u","u","i","d" >>,
      << >> }

LinkSuffixes == { << >>, << "\n" >>, << "0" >>, << "\n", "\n" >> }

LinkInputs ==
    { p \o b \o s : p \in LinkPrefixes, b \in LinkBodies, s \in LinkSuffixes }

----------------------------------------------------------------------------
(* Bounds of the model                                                     *)

\* run() invocations in one behaviour
MaxRuns == 2

\* seconds a tool-loop is followed for
MaxElapsed == 6

\* tool calls the model chooses to make inside one tool-loop
MaxToolCalls == 1

\* length of the list an NL search returns to the agent
MaxItems == 4

----------------------------------------------------------------------------
(* Program constants                                                       *)

\* resource_items[:3]
TopN == 3

\* dspy.ReAct(..., max_iters=5)
max_iters == 5

\* AgentRequest.max_tokens: ge=128, le=4096
MinMaxTokens == 128

MaxMaxTokens == 4096

\* _nl_search_tool formats resource_items[:5]
ToolTopN == 5

\* schemas.py: AGENT_TIMEOUT_SEC = int(os.getenv("AGENT_TIMEOUT_SEC", "5")), kept by
\* the agent as self.timeout_sec
AGENT_TIMEOUT_SEC == 5

TOOL_TIMEOUT == "TOOL_TIMEOUT"

INTERNAL_ERROR == "INTERNAL_ERROR"

UnavailableMsg == "Agent is currently unavailable."

UnexpectedMsg == "An unexpected error occurred while processing your query."

ApologyAnswer == "I couldn't find sufficient information to answer your query."

NO_RESOURCES_FOUND == << "n","o"," ","r","e","s","o","u","r","c","e","s"," ","f","o","u","n","d" >>

NO_INFORMATION == << "n","o"," ","i","n","f","o","r","m","a","t","i","o","n" >>

----------------------------------------------------------------------------
(* Inputs: requests, items an NL search may return, exception texts        *)

Queries == { "q1", "q2" }

\* the last one is below AgentRequest's minimum
MaxTokensInputs == { 512, 1024, 50 }

Requests ==
    [ query : Queries \cup { "" }, include_sources : BOOLEAN, max_tokens : MaxTokensInputs ]

Answers == { "a1" }

\* ResourceItem (schemas.py): link is validated to start with /resources/
ResourceItem(uuid, name, summary) ==
    [ uuid |-> uuid, name |-> name, summary |-> summary,
      link |-> RESOURCES_PREFIX \o uuid ]

NotAUuid == << "n","o","t","-","a","-","u","u","i","d" >>

\* two records of the index, a well-formed id the index lacks, a malformed id
ItemPool ==
    { ResourceItem(Uuid("a"), "A", "sa"),
      ResourceItem(Uuid("b"), "B", "sb"),
      ResourceItem(Uuid("1"), "C", "sc"),
      ResourceItem(NotAUuid, "D", "sd") }

\* the Resource Index built at startup (generate_resources is deterministic)
StartupIndex == { Uuid("a"), Uuid("1") }

IsInjective(s) == \A i, j \in 1..Len(s) : s[i] = s[j] => i = j

\* what nl_search_service.search may hand back: lists of distinct items
SearchResults ==
    { s \in UNION { [1..n -> ItemPool] : n \in 0..MaxItems } : IsInjective(s) }

\* what a search_resources tool call may get back
ToolSearchResults == { << >>, << ResourceItem(Uuid("a"), "A", "sa") >> }

\* the urls the model may ask validate_resource about
ToolUrls == { RESOURCES_PREFIX \o Uuid("a"), RESOURCES_PREFIX \o Uuid("b") }

\* str(e) of an exception raised by the tool-loop or by the NL search
ErrorTexts ==
    { NO_RESOURCES_FOUND,
      << "E","r","r","o","r",":"," ","N","o"," ","R","e","s","o","u","r","c","e","s"," ","F","o","u","n","d" >>,
      << "n","o"," ","i","n","f","o","r","m","a","t","i","o","n"," ","a","v","a","i","l","a","b","l","e" >>,
      << "n","o"," ","e","v","i","d","e","n","c","e"," ","o","f"," ","t","h","a","t" >>,
      << "r","e","s","o","u","r","c","e","s"," ","f","o","u","n","d" >>,
      << "c","o","n","n","e","c","t","i","o","n"," ","r","e","f","u","s","e","d" >> }

----------------------------------------------------------------------------
(* AgentLogger: src/utils/agent_logger.py                                  *)

log_tool_action(lg, agent_session_id, tool) ==
    Append(lg, [ event |-> "tool_action", agent_session_id |-> agent_session_id,
                 tool |-> tool ])

log_session_start(lg, agent_session_id, query) ==
    Append(lg, [ event |-> "session_start", agent_session_id |-> agent_session_id,
                 query |-> query ])

log_session_end(lg, agent_session_id, status, answer) ==
    Append(lg, [ event |-> "session_end", agent_session_id |-> agent_session_id,
                 status |-> status, answer |-> answer ])

----------------------------------------------------------------------------
(* ReACTAgent: src/services/agent/react_agent.py                           *)

\* str(uuid.uuid4()): a fresh id for the n-th invocation
uuid4(n) == ToString(n)

NoResult == [ pending |-> TRUE ]

PendingHttp == [ status |-> 0, body |-> NoResult ]

\* what a tool call met: what verify_link did, and whether the log_tool_action
\* call in the try block, and the one in the handler, raised
ToolCall(outcome, tryLogFails, handlerLogFails) ==
    [ outcome |-> outcome, tryLogFails |-> tryLogFails,
      handlerLogFails |-> handlerLogFails ]

NoToolCall == ToolCall("none", FALSE, FALSE)

NoToolRet == [ tool |-> "none", value |-> << >>, raised |-> FALSE, call |-> NoToolCall ]

NoCalls == [ model |-> 0, search |-> 0, verify |-> 0 ]

\* the locals of run()
NewRun(pc, req, session_id) ==
    [ pc |-> pc,
      query |-> req.query,
      include_sources |-> req.include_sources,
      max_tokens |-> req.max_tokens,
      session_id |-> session_id,
      nTool |-> 0,
      elapsed |-> 0,
      answer |-> None,
      resource_items |-> << >>,
      verdicts |-> << >>,
      validated_resources |-> << >>,
      raisedAt |-> "none",
      exc |-> << >>,
      result |-> NoResult ]

IdleRun ==
    NewRun("idle", [ query |-> "", include_sources |-> FALSE, max_tokens |-> 0 ], None)

\* ResourceCitation(title=item.name, url=item.link, summary=item.summary)
ResourceCitation(item) ==
    [ title |-> item.name, url |-> item.link, summary |-> item.summary ]

\* an availability test that forgets react_agent
Unavailable_LmOnly(l, r) == l = None

\* lines 193-194: the availability test of run()
Unavailable(l, r) == l = None \/ r = None

\* a filter loop over the whole list, without the [:3]
Candidates_NoCap(items) == items

\* line 217: resource_items[:3]
Candidates(items) == SubSeq(items, 1, Min(TopN, Len(items)))

\* a no-results test on str(e) as raised, without the .lower()
IsNoResults_CaseSensitive(e) ==
    Contains(e, NO_RESOURCES_FOUND) \/ Contains(e, NO_INFORMATION)

\* line 278: the no-results test on str(e).lower()
IsNoResults(e) ==
    LET error_str == Lower(e) IN
    Contains(error_str, NO_RESOURCES_FOUND) \/ Contains(error_str, NO_INFORMATION)

ErrorResult(msg, code, query) == [ error |-> msg, code |-> code, query |-> query ]

\* a response that attaches resources whenever sources were asked for
SuccessResponse_AlwaysAttach(f) ==
    LET response == [ answer |-> f.answer, query |-> f.query,
                      meta |-> [ experimental |-> TRUE ] ]
    IN IF f.include_sources
       THEN [ answer |-> response.answer, query |-> response.query,
              meta |-> response.meta, resources |-> f.validated_resources ]
       ELSE response

\* lines 262-271: the response of a completed run
SuccessResponse(f) ==
    LET resources == IF f.include_sources THEN f.validated_resources ELSE << >>
        response == [ answer |-> f.answer, query |-> f.query,
                      meta |-> [ experimental |-> TRUE ] ]
    IN IF f.include_sources /\ resources # << >>
       THEN [ answer |-> response.answer, query |-> response.query,
              meta |-> response.meta, resources |-> resources ]
       ELSE response

\* a return of the response that skips log_session_end
Succeed_NoSessionEnd(st) ==
    [ st EXCEPT !.run = [ @ EXCEPT !.pc = "done", !.result = SuccessResponse(st.run) ] ]

\* lines 259-271: log the session end and return the response
Succeed(st) ==
    [ st EXCEPT
        !.log = log_session_end(@, st.run.session_id, "success", st.run.answer),
        !.run = [ @ EXCEPT !.pc = "done", !.result = SuccessResponse(st.run) ] ]

\* a handler that keeps the answer the tool-loop produced when the NL search
\* re-run raised, and returns it without citations
HandleException_KeepsAnswer(st, e, at) ==
    LET f == [ st.run EXCEPT !.raisedAt = at, !.exc = e, !.pc = "done" ] IN
    IF at = "search"
    THEN [ st EXCEPT
             !.log = log_session_end(@, f.session_id, "success", f.answer),
             !.run = [ f EXCEPT !.result =
                         [ answer |-> f.answer, query |-> f.query,
                           meta |-> [ experimental |-> TRUE ] ] ] ]
    ELSE IF IsNoResults(e)
    THEN [ st EXCEPT
             !.log = log_session_end(@, f.session_id, "no_evidence", ApologyAnswer),
             !.run = [ f EXCEPT !.result =
                         [ answer |-> ApologyAnswer, query |-> f.query,
                           meta |-> [ experimental |-> TRUE ] ] ] ]
    ELSE [ st EXCEPT
             !.log = log_tool_action(
                         log_session_end(@, f.session_id, "tool_error", None),
                         f.session_id, "agent_run"),
             !.run = [ f EXCEPT !.result =
                         ErrorResult(UnexpectedMsg, INTERNAL_ERROR, f.query) ] ]

\* lines 273-297: the handler of whatever the try block raised
HandleException(st, e, at) ==
    LET f == [ st.run EXCEPT !.raisedAt = at, !.exc = e, !.pc = "done" ] IN
    IF IsNoResults(e)
    THEN [ st EXCEPT
             !.log = log_session_end(@, f.session_id, "no_evidence", ApologyAnswer),
             !.run = [ f EXCEPT !.result =
                         [ answer |-> ApologyAnswer, query |-> f.query,
                           meta |-> [ experimental |-> TRUE ] ] ] ]
    ELSE [ st EXCEPT
             !.log = log_tool_action(
                         log_session_end(@, f.session_id, "tool_error", None),
                         f.session_id, "agent_run"),
             !.run = [ f EXCEPT !.result =
                         ErrorResult(UnexpectedMsg, INTERNAL_ERROR, f.query) ] ]

\* a WARNING whose failure is not swallowed and reaches the handler of run()
LogHallucination_Unsuppressed(st, item, fails) ==
    LET logged == [ st EXCEPT !.hlog = Append(@,
                      [ level |-> "WARNING", url |-> item.link, title |-> item.name,
                        query |-> st.run.query, session_id |-> st.run.session_id,
                        raised |-> fails ]) ]
    IN IF fails
       THEN HandleException(logged, << "l","o","g" >>, "log")
       ELSE logged

\* lines 223-235: the WARNING of an invalid candidate; a failing log call is swallowed
LogHallucination(st, item, fails) ==
    [ st EXCEPT !.hlog = Append(@,
        [ level |-> "WARNING", url |-> item.link, title |-> item.name,
          query |-> st.run.query, session_id |-> st.run.session_id, raised |-> fails ]) ]

\* lines 245-255: the ERROR of a candidate whose validation raised; same suppression
LogValidationError(st, item, fails) ==
    [ st EXCEPT !.hlog = Append(@,
        [ level |-> "ERROR", url |-> item.link, title |-> item.name,
          query |-> st.run.query, session_id |-> st.run.session_id, raised |-> fails ]) ]

\* lines 236-244: verify_link returned True
OnValid(st, item) ==
    [ st EXCEPT !.run.verdicts = Append(@, "true"),
                !.run.validated_resources = Append(@, ResourceCitation(item)) ]

\* lines 221-235: verify_link returned False
OnInvalid(st, item, fails) ==
    LogHallucination([ st EXCEPT !.run.verdicts = Append(@, "false") ], item, fails)

\* a verify_link exception that is not caught per item and reaches the handler
OnVerifyRaise_Propagates(st, item, fails) ==
    HandleException(st, << "b","o","o","m" >>, "verify")

\* lines 245-255: verify_link raised
OnVerifyRaise(st, item, fails) ==
    LogValidationError([ st EXCEPT !.run.verdicts = Append(@, "raise") ], item, fails)

\* lines 217 and 257-271: the loop goes on, or ends and the response is built
AfterItem(st) ==
    IF st.run.pc = "verify" /\ Len(st.run.verdicts) = Len(Candidates(st.run.resource_items))
    THEN Succeed(st)
    ELSE st

\* what verify_link does for url: computed by the LinkVerifier, or, for a stand-in
\* verifier (the tests inject one), any of True, False or an exception
VerifyOutcomes(url) ==
    IF verifier = "stub"
    THEN { "true", "false", "raise" }
    ELSE { IF verify_link(verifier, index, url) THEN "true" ELSE "false" }

\* self.current_session_id or "unknown"
ToolSession(sid) == IF sid = None THEN "unknown" ELSE sid

\* lines 152-170: the try block returns verify_link's result once it is logged; the
\* handler logs the error and returns False; an exception raised by the handler's
\* own log_tool_action call leaves the tool
_validate_resource_tool(lg, session_id, c) ==
    IF c.outcome # "raise" /\ ~c.tryLogFails
    THEN [ log |-> log_tool_action(lg, session_id, "validate_resource"),
           value |-> (c.outcome = "true"), raised |-> FALSE ]
    ELSE IF ~c.handlerLogFails
    THEN [ log |-> log_tool_action(lg, session_id, "validate_resource"),
           value |-> FALSE, raised |-> FALSE ]
    ELSE [ log |-> lg, value |-> FALSE, raised |-> TRUE ]

\* what a validate_resource call about url may meet
ToolCalls(url) ==
    { ToolCall(o, f, g) : o \in VerifyOutcomes(url), f \in BOOLEAN, g \in BOOLEAN }

\* lines 122-129: the text _nl_search_tool returns
FormatResults(items) ==
    IF items = << >>
    THEN << "No resources found matching the query." >>
    ELSE [ i \in 1..Min(ToolTopN, Len(items)) |->
             << items[i].name,
                IF items[i].summary = "" THEN "No summary" ELSE items[i].summary,
                items[i].link >> ]

----------------------------------------------------------------------------
(* run_experimental_agent: src/api/routes.py                               *)

\* AgentRequest(**body): query 1..4000 characters, max_tokens 128..4096
ValidRequest(req) ==
    /\ req.query # ""
    /\ req.max_tokens >= MinMaxTokens
    /\ req.max_tokens <= MaxMaxTokens

\* lines 283-288
RouteResponse(result) ==
    IF "error" \in DOMAIN result
    THEN [ status |-> IF result.code = TOOL_TIMEOUT THEN 504 ELSE 500,
           body |-> [ detail |-> result ] ]
    ELSE [ status |-> 200, body |-> result ]

HttpOf(f) == IF f.pc = "done" THEN RouteResponse(f.result) ELSE PendingHttp

----------------------------------------------------------------------------
(* NLTagExtractor: src/services/nl_tag_extractor.py                        *)

Digits == << "0","1","2","3","4","5","6","7","8","9" >>

InSeq(x, s) == \E i \in 1..Len(s) : s[i] = x

\* \w of the re module: a letter, a digit or the underscore
IsWordChar(c) ==
    InSeq(c, LowerAlpha) \/ InSeq(c, UpperAlpha) \/ InSeq(c, Digits) \/ c = "_"

\* \b between s[i] and s[i+1]: exactly one side is a word character
WordBoundary(s, i) ==
    LET before == i >= 1 /\ IsWordChar(s[i])
        after == i < Len(s) /\ IsWordChar(s[i + 1])
    IN before # after

\* a search for the tag as a plain substring, without the \b anchors
re_search_word_Substring(tag, s) == Contains(s, tag)

\* re.search(r"\b" + re.escape(tag) + r"\b", s)
re_search_word(tag, s) ==
    \E i \in 0..(Len(s) - Len(tag)) :
        /\ SubSeq(s, i + 1, i + Len(tag)) = tag
        /\ WordBoundary(s, i)
        /\ WordBoundary(s, i + Len(tag))

Whitespace == { " ", "\t", "\n", "\r" }

RECURSIVE LStrip(_)
LStrip(s) == IF s # << >> /\ Head(s) \in Whitespace THEN LStrip(Tail(s)) ELSE s

RECURSIVE RStrip(_)
RStrip(s) ==
    IF s # << >> /\ s[Len(s)] \in Whitespace THEN RStrip(SubSeq(s, 1, Len(s) - 1)) ELSE s

\* str.strip()
Strip(s) == LStrip(RStrip(s))

RECURSIVE Split(_, _)
\* str.split(sep) for a one-character separator: "" gives [""]
Split(s, sep) ==
    IF \E i \in 1..Len(s) : s[i] = sep
    THEN LET i == CHOOSE k \in 1..Len(s) :
                     s[k] = sep /\ \A j \in 1..(k - 1) : s[j] # sep
         IN << SubSeq(s, 1, i - 1) >> \o Split(SubSeq(s, i + 1, Len(s)), sep)
    ELSE << s >>

\* the NamedTuple of lines 12-23: tags, confidence, ambiguous; confidences and
\* the threshold are kept in hundredths, 1.0 being 100
TagExtractionResult(tags, confidence, ambiguous) ==
    [ tags |-> tags, confidence |-> confidence, ambiguous |-> ambiguous ]

\* lines 125-161
_keyword_extract(tags, query) ==
    LET query_lower == Lower(query)
        matched_tags == SelectSeq(tags, LAMBDA tag : re_search_word(tag, query_lower))
    IN IF matched_tags # << >>
       THEN TagExtractionResult(matched_tags,
                                IF Len(matched_tags) = 1 THEN 100 ELSE 50,
                                Len(matched_tags) > 1)
       ELSE TagExtractionResult(<< >>, 0, FALSE)

\* a parse of the model output that keeps every token
valid_tags_of_Unfiltered(tags, top_tags) ==
    LET pieces == Split(Strip(top_tags), ",")
    IN [ i \in 1..Len(pieces) |-> Strip(pieces[i]) ]

\* lines 98-103: the valid tags of a model output
valid_tags_of(tags, top_tags) ==
    LET top_tags_str == Strip(top_tags)
        pieces == Split(top_tags_str, ",")
        extracted == [ i \in 1..Len(pieces) |-> Strip(pieces[i]) ]
    IN SelectSeq(extracted, LAMBDA tag : InSeq(tag, tags))

\* an LLM path that scores like the keyword path
llm_result_KeywordScores(valid_tags, threshold) ==
    TagExtractionResult(valid_tags,
                        IF Len(valid_tags) = 1 THEN 100 ELSE 50,
                        Len(valid_tags) > 1)

\* lines 105-117: the result of the LLM path
llm_result(valid_tags, threshold) ==
    LET confidence == IF Len(valid_tags) = 1 THEN 100 ELSE 70
        ambiguous == Len(valid_tags) > 1 /\ (100 - confidence) < threshold
    IN TagExtractionResult(valid_tags, confidence, ambiguous)

\* an extract that answers no-match when the model gave no valid tag
extract_NoFallback(ext, tags, threshold, query, out) ==
    IF ext # None /\ out.kind = "ok"
    THEN [ result |-> IF valid_tags_of(tags, out.top_tags) # << >>
                      THEN llm_result(valid_tags_of(tags, out.top_tags), threshold)
                      ELSE TagExtractionResult(<< >>, 0, FALSE),
           path |-> "llm", called |-> TRUE, extractor |-> ext ]
    ELSE [ result |-> _keyword_extract(tags, query),
           path |-> "keyword", called |-> ext # None, extractor |-> ext ]

\* an extract that gives the model up once a call to it was of no use
extract_GivesUpModel(ext, tags, threshold, query, out) ==
    IF ext # None /\ out.kind = "ok" /\ valid_tags_of(tags, out.top_tags) # << >>
    THEN [ result |-> llm_result(valid_tags_of(tags, out.top_tags), threshold),
           path |-> "llm", called |-> TRUE, extractor |-> ext ]
    ELSE [ result |-> _keyword_extract(tags, query),
           path |-> "keyword", called |-> ext # None, extractor |-> None ]

\* lines 90-123: extract; out is what the model call does, path tells which
\* branch produced the result, called whether the model was invoked, extractor
\* is self.extractor after the call (no statement of extract assigns it)
extract(ext, tags, threshold, query, out) ==
    IF ext # None /\ out.kind = "ok" /\ valid_tags_of(tags, out.top_tags) # << >>
    THEN [ result |-> llm_result(valid_tags_of(tags, out.top_tags), threshold),
           path |-> "llm", called |-> TRUE, extractor |-> ext ]
    ELSE [ result |-> _keyword_extract(tags, query),
           path |-> "keyword", called |-> ext # None, extractor |-> ext ]

----------------------------------------------------------------------------
(* ResourceStore and NLSearchService: src/services/resource_store.py,      *)
(* src/services/nl_search_service.py                                       *)

\* models/resource.py: uuid, name, description (1..1000 characters), search_tag
Resource(uuid, name, description, search_tag) ==
    [ uuid |-> uuid, name |-> name, description |-> description,
      search_tag |-> search_tag ]

TagA == << "a" >>

TagB == << "b" >>

TagAB == << "a", "b" >>

\* the longest description a Resource may carry
MaxDescription == 1000

\* the store built at startup: three tags, descriptions around the summary limit;
\* Resource.uuid is any string, and the last resource has one that is not a UUID
StartupResources ==
    << Resource(Uuid("1"), "r1", Rep("d", 5), TagB),
       Resource(Uuid("2"), "r2", Rep("d", 200), TagA),
       Resource(Uuid("3"), "r3", Rep("d", 201), TagB),
       Resource(Uuid("4"), "r4", Rep("d", MaxDescription), TagAB),
       Resource(Uuid("5"), "r5", Rep("d", 1), TagA),
       Resource(Uuid("6"), "r6", Rep("d", 199), TagB),
       Resource(Uuid("7"), "r7", Rep("d", 3), TagA),
       Resource(NotAUuid, "r8", Rep("d", 2), TagAB) >>

RECURSIVE UniqueTags(_, _)
\* ResourceStore.__init__, lines 166-176: the keys of _tags_to_uuids, first seen first
UniqueTags(rs, n) ==
    IF n = 0 THEN << >>
    ELSE LET before == UniqueTags(rs, n - 1) IN
         IF InSeq(rs[n].search_tag, before) THEN before
         ELSE Append(before, rs[n].search_tag)

get_unique_tags(rs) == UniqueTags(rs, Len(rs))

\* the ids of the store, as verify_internal_link looks them up
UuidsOf(rs) == { rs[i].uuid : i \in 1..Len(rs) }

RECURSIVE get_by_tags(_, _)
\* the resources of each tag in store order, tag by tag, concatenated
get_by_tags(rs, tags) ==
    IF tags = << >> THEN << >>
    ELSE SelectSeq(rs, LAMBDA r : r.search_tag = Head(tags)) \o get_by_tags(rs, Tail(tags))

\* description[:200]
SummaryLimit == 200

Ellipsis == << ".", ".", "." >>

\* an item builder that already truncates a description of exactly 200 characters
_build_resource_items_OffByOne(rs, tags) ==
    [ i \in 1..Len(rs) |->
        [ uuid |-> rs[i].uuid,
          name |-> rs[i].name,
          summary |-> IF Len(rs[i].description) >= SummaryLimit
                      THEN SubSeq(rs[i].description, 1, SummaryLimit) \o Ellipsis
                      ELSE rs[i].description,
          link |-> RESOURCES_PREFIX \o rs[i].uuid,
          tags |-> tags ] ]

\* lines 114-131: one ResourceItem per resource
_build_resource_items(rs, tags) ==
    [ i \in 1..Len(rs) |->
        [ uuid |-> rs[i].uuid,
          name |-> rs[i].name,
          summary |-> IF Len(rs[i].description) > SummaryLimit
                      THEN SubSeq(rs[i].description, 1, SummaryLimit) \o Ellipsis
                      ELSE rs[i].description,
          link |-> RESOURCES_PREFIX \o rs[i].uuid,
          tags |-> tags ] ]

\* what the model call of extract does: returns top_tags, or raises
ModelOutput(kind, top_tags) == [ kind |-> kind, top_tags |-> top_tags ]

NoModelOutput == ModelOutput("none", << >>)

\* the tuple search returns, or the exception it raises
SearchReturn(items, message, candidate_tags, reasoning) ==
    [ kind |-> "return", exc |-> None, items |-> items, message |-> message,
      candidate_tags |-> candidate_tags, reasoning |-> reasoning ]

SearchRaise(exc) ==
    [ kind |-> "raise", exc |-> exc, items |-> << >>, message |-> Nothing,
      candidate_tags |-> << >>, reasoning |-> << >> ]

\* the return statements of lines 65, 78 and 99 read extraction.reasoning
ReturnWithReasoning(extraction, items, message, candidate_tags) ==
    IF "reasoning" \in DOMAIN extraction
    THEN SearchReturn(items, message, candidate_tags, extraction.reasoning)
    ELSE SearchRaise("AttributeError")

\* slicing with a non-negative bound: xs[:n]
Take(xs, n) == SubSeq(xs, 1, Min(n, Len(xs)))

\* lines 54-99: search; cap is Nothing or Some(n)
search(rs, ext, tags, threshold, dcap, query, cap, out) ==
    LET result_cap == IF cap # Nothing THEN cap[1] ELSE dcap
        x == extract(ext, tags, threshold, query, out)
        extraction == x.result
    IN IF extraction.tags = << >>
       THEN LET suggestions == Take(get_unique_tags(rs), 3) IN
            [ x |-> x, branch |-> "no_match", result_cap |-> result_cap,
              resources |-> << >>, items |-> << >>, verified |-> << >>,
              trace |-> << "extract" >>,
              outcome |-> ReturnWithReasoning(extraction, << >>,
                             Some(<< "No matching resources found.", suggestions >>),
                             suggestions) ]
       ELSE IF extraction.ambiguous /\ Len(extraction.tags) > 1
       THEN LET resources == Take(get_by_tags(rs, extraction.tags), result_cap)
                items == _build_resource_items(resources, extraction.tags)
            IN [ x |-> x, branch |-> "ambiguous", result_cap |-> result_cap,
                 resources |-> resources, items |-> items, verified |-> << >>,
                 trace |-> << "extract", "lookup", "build" >>,
                 outcome |-> ReturnWithReasoning(extraction, items,
                                Some(<< "Your query matches multiple categories.",
                                        extraction.tags >>),
                                extraction.tags) ]
       ELSE LET resources == get_by_tags(rs, extraction.tags)
                capped_resources == Take(resources, result_cap)
                items == _build_resource_items(capped_resources, extraction.tags)
                verified == [ i \in 1..Len(items) |->
                                verify_internal_link(items[i].link, UuidsOf(rs)).valid ]
            IN [ x |-> x, branch |-> "standard", result_cap |-> result_cap,
                 resources |-> capped_resources, items |-> items,
                 verified |-> verified,
                 trace |-> << "extract", "lookup", "build", "verify" >>,
                 outcome |-> ReturnWithReasoning(extraction, items, Nothing, << >>) ]

----------------------------------------------------------------------------
(* nl_search: src/api/routes.py                                            *)

\* routes.py line 202: the longest query the route accepts
MaxQueryChars == 1000

ErrorResponse(error, code, query) ==
    [ detail |-> [ error |-> error, code |-> code, query |-> query ] ]

NoExtraction ==
    [ result |-> TagExtractionResult(<< >>, 0, FALSE), path |-> "none", called |-> FALSE,
      extractor |-> None ]

NoSearch ==
    [ x |-> NoExtraction, branch |-> "none", result_cap |-> 0, resources |-> << >>,
      items |-> << >>, verified |-> << >>, trace |-> << >>,
      outcome |-> [ kind |-> "none", exc |-> None, items |-> << >>,
                    message |-> Nothing, candidate_tags |-> << >>,
                    reasoning |-> << >> ] ]

\* lines 213-236: the response for what search returned or raised
NlResponse(found, query) ==
    IF found.outcome.kind = "return"
    THEN [ status |-> 200,
           body |-> [ results |-> found.outcome.items,
                      count |-> Len(found.outcome.items),
                      query |-> query,
                      message |-> found.outcome.message,
                      candidate_tags |-> found.outcome.candidate_tags,
                      reasoning |-> found.outcome.reasoning ] ]
    ELSE IF found.outcome.exc = "ConnectionError"
    THEN [ status |-> 503,
           body |-> ErrorResponse("NL search service is unavailable",
                                  "SERVICE_UNAVAILABLE", query) ]
    ELSE [ status |-> 500,
           body |-> ErrorResponse("Internal Server Error", found.outcome.exc, query) ]

\* lines 189-211: the 400 answers of the route
MissingQuery(q) ==
    [ status |-> 400,
      body |-> ErrorResponse("Query parameter 'q' is required", "MISSING_QUERY",
                             IF q = Nothing THEN << >> ELSE q[1]) ]

QueryTooLong(query) ==
    [ status |-> 400,
      body |-> ErrorResponse("Query exceeds maximum length of 1000 characters",
                             "QUERY_TOO_LONG", SubSeq(query, 1, 50) \o Ellipsis) ]

\* lines 181-236: q is Nothing (parameter absent) or Some(text); an exception the
\* route does not handle becomes the server's own 500
nl_search(rs, ext, tags, threshold, dcap, q, out) ==
    IF q = Nothing \/ Strip(q[1]) = << >>
    THEN [ found |-> NoSearch, http |-> MissingQuery(q) ]
    ELSE IF Len(Strip(q[1])) > MaxQueryChars
    THEN [ found |-> NoSearch, http |-> QueryTooLong(Strip(q[1])) ]
    ELSE [ found |-> search(rs, ext, tags, threshold, dcap, Strip(q[1]), Nothing, out),
           http |-> NlResponse(
                       search(rs, ext, tags, threshold, dcap, Strip(q[1]), Nothing, out),
                       Strip(q[1])) ]

----------------------------------------------------------------------------
(* Inputs of the natural-language search                                   *)

\* ambiguity_threshold: float = 0.15
DEFAULT_AMBIGUITY_THRESHOLD == 15

\* int(os.getenv("NL_SEARCH_RESULT_CAP", "5"))
NL_SEARCH_DEFAULT_RESULT_CAP == 5

\* the longest query an extract call is tried with
MaxQueryLen == 3

\* the largest explicit cap a search call is tried with
MaxCap == 3

QueryChars == { "a", "b", "A", " ", "_" }

NLQueries == UNION { [1..n -> QueryChars] : n \in 0..MaxQueryLen }

SearchQueries ==
    { << "a" >>, << "b", " ", "a" >>, << "a", "b" >>, << "A", " ", "b" >>,
      << "a", "_", "b" >>, << "_" >>, << "a", "a" >> }

RouteQueries ==
    { Nothing, Some(<< " ", " " >>), Some(Rep("a", MaxQueryChars + 1)),
      Some(<< " ", "a", " " >>) } \cup { Some(q) : q \in SearchQueries }

Caps == { Nothing } \cup { Some(c) : c \in 0..MaxCap }

\* what the model may answer, or how its call may fail
ModelOutputs ==
    { ModelOutput("ok", << "a" >>),
      ModelOutput("ok", << "b", ",", " ", "a" >>),
      ModelOutput("ok", << "z", "z", ",", " ", "a" >>),
      ModelOutput("ok", << "z", "z" >>),
      ModelOutput("ok", << "A" >>),
      ModelOutput("ok", << "a", ",", "a" >>),
      ModelOutput("ok", << " ", "a", "b", " ", ",", " ", " ", "b", ",", "z", ",", "a", "\n" >>),
      ModelOutput("ok", << >>),
      ModelOutput("ConnectionError", << >>),
      ModelOutput("ValueError", << >>) }

\* the model is only called by an extractor that has one
ModelOutputsFor(ext) == IF ext = None THEN { NoModelOutput } ELSE ModelOutputs

\* lm and ambiguity_threshold as NLTagExtractor may be constructed with
ExtractorConfigs ==
    { << None, DEFAULT_AMBIGUITY_THRESHOLD >>,
      << "set", DEFAULT_AMBIGUITY_THRESHOLD >>,
      << "set", 50 >> }

\* earlier tells whether a call made before fell back after asking the model
NoCall ==
    [ op |-> "none", q |-> Nothing, cap |-> Nothing, out |-> NoModelOutput,
      x |-> NoExtraction, s |-> NoSearch, http |-> PendingHttp, earlier |-> FALSE ]

\* main.py lines 37-51: the store, the extractor and the search service at startup
NlStartup ==
    /\ resource_store = StartupResources
    /\ available_tags = get_unique_tags(StartupResources)
    /\ extractor = "set"
    /\ ambiguity_threshold = DEFAULT_AMBIGUITY_THRESHOLD
    /\ default_cap = NL_SEARCH_DEFAULT_RESULT_CAP
    /\ nl = NoCall

----------------------------------------------------------------------------
(* Startup health snapshot: src/main.py, src/services/semantic_search.py,  *)
(* src/api/routes.py                                                       *)

\* settings.ollama_model
MODEL_NAME == "gpt-oss:20b"

Backend(reachable, model_running) ==
    [ reachable |-> reachable, model_running |-> model_running ]

Backends == { Backend(r, m) : r, m \in BOOLEAN }

\* semantic_search.py lines 166-178: GET {ollama_host}/api/tags answered 200
check_connection(b) == b.reachable

\* semantic_search.py lines 127-164: `ollama ps` lists the model
check_model_running(b) == b.model_running

\* semantic_search.py lines 180-201; checks counts the probes made on the way
get_health_status(b) ==
    IF ~check_connection(b)
    THEN [ status |-> "unhealthy", message |-> "Ollama service is not reachable",
           checks |-> 1 ]
    ELSE IF ~check_model_running(b)
    THEN [ status |-> "degraded", message |-> "Ollama is running but model is not loaded",
           checks |-> 2 ]
    ELSE [ status |-> "healthy", message |-> "Ollama and model are ready", checks |-> 2 ]

\* main.py lines 60-73: the snapshot lifespan computes
HealthSnapshot(b, rs) ==
    LET h == get_health_status(b) IN
    [ status |-> h.status,
      ollama |-> IF h.status = "healthy" THEN "connected"
                 ELSE IF h.status = "degraded" THEN "model_not_running"
                 ELSE "disconnected",
      ollama_message |-> h.message,
      model_name |-> MODEL_NAME,
      resources_loaded |-> Len(rs) ]

\* a health check that asks the backend again on every request
health_check_Live(snapshot) ==
    LET live == HealthSnapshot(backend, resource_store) IN
    [ status_code |-> IF live.status = "unhealthy" THEN 503 ELSE 200,
      body |-> live,
      checks |-> get_health_status(backend).checks ]

\* routes.py lines 159-163: the snapshot is read and returned, no probe is made
health_check(snapshot) ==
    [ status_code |-> IF snapshot.status = "unhealthy" THEN 503 ELSE 200,
      body |-> snapshot,
      checks |-> 0 ]

\* semantic_search.py lines 92-125 and routes.py lines 72-91: GET /search probes the
\* backend before it asks the model; found is what the model call then does
search_by_tag(b, found) ==
    IF ~check_model_running(b)
    THEN [ status_code |-> 503, body |-> "SERVICE_UNAVAILABLE", checks |-> 2 ]
    ELSE IF found = "ConnectionError"
    THEN [ status_code |-> 503, body |-> "SERVICE_UNAVAILABLE", checks |-> 1 ]
    ELSE IF found = "ok"
    THEN [ status_code |-> 200, body |-> "results", checks |-> 1 ]
    ELSE [ status_code |-> 500, body |-> "Internal Server Error", checks |-> 1 ]

NoRequest == [ op |-> "none", status_code |-> 0, body |-> "none" ]

\* callers that may be inside run() on the one agent instance at the same time
MaxThreads == 2

Threads == 1..MaxThreads

\* the locals of one caller's run(): where it is, its session_id, its tool calls
ThreadFrame(pc, session_id, nTool) ==
    [ pc |-> pc, session_id |-> session_id, nTool |-> nTool ]

NoThreads == [ t \in Threads |-> ThreadFrame("idle", None, 0) ]

\* requests served in one behaviour
MaxRequests == 3

\* no second invocation yet
NoTwin == [ run |-> IdleRun, log |-> << >>, hlog |-> << >>, http |-> PendingHttp ]

\* no tool-loop call yet
NoKwargs == [ first |-> << >>, twin |-> << >> ]

\* the application once lifespan has run against a healthy backend
AppStarted ==
    /\ backend = Backend(TRUE, TRUE)
    /\ health_snapshot = Some(HealthSnapshot(Backend(TRUE, TRUE), StartupResources))
    /\ snapshot_writes = 1
    /\ probes = get_health_status(Backend(TRUE, TRUE)).checks
    /\ nReq = 0
    /\ hreq = NoRequest
    /\ threads = NoThreads
    /\ emitter = << >>
    /\ twin = NoTwin
    /\ loop_kwargs = NoKwargs

----------------------------------------------------------------------------
(* Actions                                                                 *)

Cur == [ run |-> run, log |-> log, hlog |-> hlog ]

Commit(st) ==
    /\ run' = st.run
    /\ log' = st.log
    /\ hlog' = st.hlog
    /\ http' = HttpOf(st.run)

\* ReACTAgent.__init__, lines 58-99
Construct(lmOk, reactOk) ==
    IF ~lmOk THEN [ lm |-> None, react_agent |-> None ]
    ELSE IF ~reactOk THEN [ lm |-> "set", react_agent |-> None ]
    ELSE [ lm |-> "set", react_agent |-> "set" ]

Init ==
    /\ index = StartupIndex
    /\ verifier \in { "store", "format", "stub" }
    /\ \E lmOk, reactOk \in BOOLEAN :
          /\ lm = Construct(lmOk, reactOk).lm
          /\ react_agent = Construct(lmOk, reactOk).react_agent
    /\ current_session_id = None
    /\ nRuns = 0
    /\ run = IdleRun
    /\ log = << >>
    /\ hlog = << >>
    /\ calls = NoCalls
    /\ http = PendingHttp
    /\ toolRet = NoToolRet
    /\ lv = [ link |-> << >>, store |-> {}, result |-> LinkVerificationResult(FALSE, Nothing, None) ]
    /\ NlStartup
    /\ AppStarted

\* routes.py lines 259-271: the body does not validate
RejectRequest(req) ==
    /\ run.pc \in { "idle", "done" }
    /\ ~ValidRequest(req)
    /\ run' = IdleRun
    /\ log' = << >>
    /\ hlog' = << >>
    /\ calls' = NoCalls
    /\ toolRet' = NoToolRet
    /\ http' = [ status |-> 400,
                 body |-> [ detail |-> ErrorResult("Invalid request format",
                                                   "INVALID_REQUEST", "") ] ]
    /\ UNCHANGED << index, verifier, lm, react_agent, current_session_id, nRuns, lv >>
    /\ UNCHANGED nlVars
    /\ UNCHANGED appVars

\* routes.py lines 273-281 and run() lines 189-204: a request enters run()
StartRun(req) ==
    /\ run.pc \in { "idle", "done" }
    /\ nRuns < MaxRuns
    /\ ValidRequest(req)
    /\ LET session_id == uuid4(nRuns + 1)
           started == log_session_start(<< >>, session_id, req.query)
       IN /\ nRuns' = nRuns + 1
          /\ current_session_id' = session_id
          /\ hlog' = << >>
          /\ toolRet' = NoToolRet
          /\ IF Unavailable(lm, react_agent)
             THEN /\ run' = [ NewRun("done", req, session_id) EXCEPT
                                !.result = ErrorResult(UnavailableMsg, INTERNAL_ERROR,
                                                       req.query) ]
                  /\ log' = log_session_end(started, session_id, "tool_error", None)
                  /\ calls' = NoCalls
             ELSE /\ run' = NewRun("loop", req, session_id)
                  /\ log' = started
                  /\ calls' = [ NoCalls EXCEPT !.model = 1 ]
          /\ http' = HttpOf(run')
    /\ UNCHANGED << index, verifier, lm, react_agent, lv >>
    /\ UNCHANGED nlVars
    /\ UNCHANGED appVars

\* _nl_search_tool, lines 101-138, called by the tool-loop
ToolSearch(raises, items) ==
    /\ run.pc = "loop"
    /\ run.nTool < MaxToolCalls
    /\ run.nTool < max_iters
    /\ log' = log_tool_action(log, ToolSession(current_session_id), "search_resources")
    /\ toolRet' = [ tool |-> "search_resources",
                    value |-> IF raises THEN << "Error searching resources" >>
                              ELSE FormatResults(items),
                    raised |-> FALSE, call |-> NoToolCall ]
    /\ calls' = [ calls EXCEPT !.search = @ + 1 ]
    /\ run' = [ run EXCEPT !.nTool = @ + 1 ]
    /\ UNCHANGED << index, verifier, lm, react_agent, current_session_id, nRuns,
                    hlog, http, lv >>
    /\ UNCHANGED nlVars
    /\ UNCHANGED appVars

\* _validate_resource_tool, lines 140-170, called by the tool-loop
ToolValidate(url, c) ==
    /\ run.pc = "loop"
    /\ run.nTool < MaxToolCalls
    /\ run.nTool < max_iters
    /\ LET r == _validate_resource_tool(log, ToolSession(current_session_id), c) IN
       /\ log' = r.log
       /\ toolRet' = [ tool |-> "validate_resource", value |-> r.value,
                       raised |-> r.raised, call |-> c ]
    /\ calls' = [ calls EXCEPT !.verify = @ + 1 ]
    /\ run' = [ run EXCEPT !.nTool = @ + 1 ]
    /\ UNCHANGED << index, verifier, lm, react_agent, current_session_id, nRuns,
                    hlog, http, lv >>
    /\ UNCHANGED nlVars
    /\ UNCHANGED appVars

\* lines 204-209 (and 259-271 when no sources are asked for): the tool-loop returns
LoopReturns(answer) ==
    /\ run.pc = "loop"
    /\ LET st == [ Cur EXCEPT !.run.answer = answer ] IN
       IF run.include_sources
       THEN Commit([ st EXCEPT !.run.pc = "search" ])
       ELSE Commit(Succeed(st))
    /\ toolRet' = NoToolRet
    /\ UNCHANGED << index, verifier, lm, react_agent, current_session_id, nRuns,
                    calls, lv >>
    /\ UNCHANGED nlVars
    /\ UNCHANGED appVars

\* lines 204 and 273-297: the tool-loop raises
LoopRaises(e) ==
    /\ run.pc = "loop"
    /\ Commit(HandleException(Cur, e, "loop"))
    /\ toolRet' = NoToolRet
    /\ UNCHANGED << index, verifier, lm, react_agent, current_session_id, nRuns,
                    calls, lv >>
    /\ UNCHANGED nlVars
    /\ UNCHANGED appVars

\* line 213: the NL search re-run returns
SearchReturns(items) ==
    /\ run.pc = "search"
    /\ calls' = [ calls EXCEPT !.search = @ + 1 ]
    /\ LET st == [ Cur EXCEPT !.run.resource_items = items, !.run.pc = "verify" ] IN
       Commit(AfterItem(st))
    /\ UNCHANGED << index, verifier, lm, react_agent, current_session_id, nRuns,
                    toolRet, lv >>
    /\ UNCHANGED nlVars
    /\ UNCHANGED appVars

\* lines 213 and 273-297: the NL search re-run raises
SearchRaises(e) ==
    /\ run.pc = "search"
    /\ calls' = [ calls EXCEPT !.search = @ + 1 ]
    /\ Commit(HandleException(Cur, e, "search"))
    /\ UNCHANGED << index, verifier, lm, react_agent, current_session_id, nRuns,
                    toolRet, lv >>
    /\ UNCHANGED nlVars
    /\ UNCHANGED appVars

NextItem == Candidates(run.resource_items)[Len(run.verdicts) + 1]

\* lines 217-244: one candidate, verify_link returns True
VerifyValid ==
    /\ run.pc = "verify"
    /\ "true" \in VerifyOutcomes(NextItem.link)
    /\ calls' = [ calls EXCEPT !.verify = @ + 1 ]
    /\ Commit(AfterItem(OnValid(Cur, NextItem)))
    /\ UNCHANGED << index, verifier, lm, react_agent, current_session_id, nRuns,
                    toolRet, lv >>
    /\ UNCHANGED nlVars
    /\ UNCHANGED appVars

\* lines 217-235: one candidate, verify_link returns False
VerifyInvalid(logFails) ==
    /\ run.pc = "verify"
    /\ "false" \in VerifyOutcomes(NextItem.link)
    /\ calls' = [ calls EXCEPT !.verify = @ + 1 ]
    /\ Commit(AfterItem(OnInvalid(Cur, NextItem, logFails)))
    /\ UNCHANGED << index, verifier, lm, react_agent, current_session_id, nRuns,
                    toolRet, lv >>
    /\ UNCHANGED nlVars
    /\ UNCHANGED appVars

\* lines 217-219 and 245-255: one candidate, verify_link raises
VerifyRaises(logFails) ==
    /\ run.pc = "verify"
    /\ "raise" \in VerifyOutcomes(NextItem.link)
    /\ calls' = [ calls EXCEPT !.verify = @ + 1 ]
    /\ Commit(AfterItem(OnVerifyRaise(Cur, NextItem, logFails)))
    /\ UNCHANGED << index, verifier, lm, react_agent, current_session_id, nRuns,
                    toolRet, lv >>
    /\ UNCHANGED nlVars
    /\ UNCHANGED appVars

Next ==
    \/ \E req \in Requests : RejectRequest(req)
    \/ \E req \in Requests : StartRun(req)
    \/ \E raises \in BOOLEAN, items \in ToolSearchResults : ToolSearch(raises, items)
    \/ \E url \in ToolUrls : \E c \in ToolCalls(url) : ToolValidate(url, c)
    \/ \E a \in Answers : LoopReturns(a)
    \/ \E e \in ErrorTexts : LoopRaises(e)
    \/ \E items \in SearchResults : SearchReturns(items)
    \/ \E e \in ErrorTexts : SearchRaises(e)
    \/ VerifyValid
    \/ \E logFails \in BOOLEAN : VerifyInvalid(logFails)
    \/ \E logFails \in BOOLEAN : VerifyRaises(logFails)

Spec == Init /\ [][Next]_vars

----------------------------------------------------------------------------
(* The timed specification: the agent run while the tool-loop takes time   *)

\* line 204: self.react_agent(question=query) has not returned for another second;
\* nothing in run() or in the route looks at a clock or at timeout_sec
LoopTakesTime ==
    /\ run.pc = "loop"
    /\ run.elapsed < MaxElapsed
    /\ run' = [ run EXCEPT !.elapsed = @ + 1 ]
    /\ UNCHANGED << index, verifier, lm, react_agent, current_session_id, nRuns,
                    log, hlog, calls, http, toolRet, lv >>
    /\ UNCHANGED nlVars
    /\ UNCHANGED appVars

TimeoutInit ==
    /\ Init
    /\ verifier = "stub"
    /\ lm = "set"
    /\ react_agent = "set"

\* the steps of Next, the NL search re-run handing back one item at most
TimeoutNext ==
    \/ \E req \in Requests : RejectRequest(req)
    \/ \E req \in Requests : StartRun(req)
    \/ LoopTakesTime
    \/ \E raises \in BOOLEAN, items \in ToolSearchResults : ToolSearch(raises, items)
    \/ \E url \in ToolUrls : \E c \in ToolCalls(url) : ToolValidate(url, c)
    \/ \E a \in Answers : LoopReturns(a)
    \/ \E e \in ErrorTexts : LoopRaises(e)
    \/ \E items \in ToolSearchResults : SearchReturns(items)
    \/ \E e \in ErrorTexts : SearchRaises(e)
    \/ VerifyValid
    \/ \E logFails \in BOOLEAN : VerifyInvalid(logFails)
    \/ \E logFails \in BOOLEAN : VerifyRaises(logFails)

SpecTimeout == TimeoutInit /\ [][TimeoutNext]_vars

----------------------------------------------------------------------------
(* The interleaved specification: callers on several threads inside run()  *)
(* of the one agent instance; log collects the lines of all of them        *)

\* lines 189-191: session_id = str(uuid.uuid4()); self.current_session_id = session_id
ThreadStartRun(t, query) ==
    /\ threads[t].pc \in { "idle", "done" }
    /\ nRuns < MaxRuns
    /\ LET session_id == uuid4(nRuns + 1) IN
       /\ nRuns' = nRuns + 1
       /\ current_session_id' = session_id
       /\ threads' = [ threads EXCEPT ![t] = ThreadFrame("loop", session_id, 0) ]
       /\ log' = log_session_start(log, session_id, query)
       /\ emitter' = Append(emitter, session_id)
    /\ UNCHANGED << index, verifier, lm, react_agent, run, hlog, calls, http, toolRet, lv >>
    /\ UNCHANGED nlVars
    /\ UNCHANGED healthVars
    /\ UNCHANGED twinVars

\* lines 110-120 and 152-160: a tool called by t's tool-loop reads
\* self.current_session_id when it is called
ThreadToolCall(t, tool) ==
    /\ threads[t].pc = "loop"
    /\ threads[t].nTool < MaxToolCalls
    /\ threads[t].nTool < max_iters
    /\ log' = log_tool_action(log, ToolSession(current_session_id), tool)
    /\ emitter' = Append(emitter, threads[t].session_id)
    /\ threads' = [ threads EXCEPT ![t].nTool = @ + 1 ]
    /\ UNCHANGED << index, verifier, lm, react_agent, current_session_id, nRuns, run,
                    hlog, calls, http, toolRet, lv >>
    /\ UNCHANGED nlVars
    /\ UNCHANGED healthVars
    /\ UNCHANGED twinVars

\* lines 204-205 and 259: t's tool-loop returns and the session end is logged
\* with the local session_id
ThreadLoopReturns(t, answer) ==
    /\ threads[t].pc = "loop"
    /\ log' = log_session_end(log, threads[t].session_id, "success", answer)
    /\ emitter' = Append(emitter, threads[t].session_id)
    /\ threads' = [ threads EXCEPT ![t].pc = "done" ]
    /\ UNCHANGED << index, verifier, lm, react_agent, current_session_id, nRuns, run,
                    hlog, calls, http, toolRet, lv >>
    /\ UNCHANGED nlVars
    /\ UNCHANGED healthVars
    /\ UNCHANGED twinVars

ThreadsInit ==
    /\ Init
    /\ verifier = "store"
    /\ lm = "set"
    /\ react_agent = "set"

ThreadsNext ==
    \/ \E t \in Threads, query \in Queries : ThreadStartRun(t, query)
    \/ \E t \in Threads, tool \in { "search_resources", "validate_resource" } :
          ThreadToolCall(t, tool)
    \/ \E t \in Threads, a \in Answers : ThreadLoopReturns(t, a)

SpecThreads == ThreadsInit /\ [][ThreadsNext]_vars

----------------------------------------------------------------------------
(* The paired specification: two run() invocations given the same query,    *)
(* includeSources, model, search and verifier behaviour, and two different  *)
(* max_tokens                                                               *)

\* a tool-loop call that hands max_tokens on
LoopKwargs_WithMaxTokens(f) == [ question |-> f.query, max_tokens |-> f.max_tokens ]

\* line 204: self.react_agent(question=query)
LoopKwargs(f) == [ question |-> f.query ]

\* the answers the model may give
TwinAnswers == Answers \cup { "a2" }

TwinCur == [ run |-> twin.run, log |-> twin.log, hlog |-> twin.hlog ]

TwinCommit(st) ==
    twin' = [ run |-> st.run, log |-> st.log, hlog |-> st.hlog, http |-> HttpOf(st.run) ]

\* lines 189-204: run() up to the tool-loop call, or its early return
Begin(req, session_id) ==
    LET started == log_session_start(<< >>, session_id, req.query) IN
    IF Unavailable(lm, react_agent)
    THEN [ run |-> [ NewRun("done", req, session_id) EXCEPT
                       !.result = ErrorResult(UnavailableMsg, INTERNAL_ERROR, req.query) ],
           log |-> log_session_end(started, session_id, "tool_error", None),
           hlog |-> << >> ]
    ELSE [ run |-> NewRun("loop", req, session_id), log |-> started, hlog |-> << >> ]

\* routes.py lines 273-281 and run() lines 189-204: the same request twice, the
\* second time with max_tokens = other
TwinStartRun(req, other) ==
    /\ run.pc \in { "idle", "done" }
    /\ nRuns < MaxRuns
    /\ ValidRequest(req)
    /\ ValidRequest([ req EXCEPT !.max_tokens = other ])
    /\ other # req.max_tokens
    /\ LET session_id == uuid4(nRuns + 1)
           a == Begin(req, session_id)
           b == Begin([ req EXCEPT !.max_tokens = other ], session_id)
       IN /\ nRuns' = nRuns + 1
          /\ current_session_id' = session_id
          /\ toolRet' = NoToolRet
          /\ Commit(a)
          /\ TwinCommit(b)
          /\ calls' = IF a.run.pc = "loop" THEN [ NoCalls EXCEPT !.model = 1 ] ELSE NoCalls
          /\ loop_kwargs' =
                IF a.run.pc = "loop"
                THEN [ first |-> << LoopKwargs(a.run) >>, twin |-> << LoopKwargs(b.run) >> ]
                ELSE NoKwargs
    /\ UNCHANGED << index, verifier, lm, react_agent, lv >>
    /\ UNCHANGED nlVars
    /\ UNCHANGED healthVars
    /\ UNCHANGED threadVars

\* lines 204-209: both tool-loops return; the model answers alike when it was
\* called alike
TwinLoopReturns(answer, twinAnswer) ==
    /\ run.pc = "loop"
    /\ twin.run.pc = "loop"
    /\ loop_kwargs.first = loop_kwargs.twin => answer = twinAnswer
    /\ LET a == [ Cur EXCEPT !.run.answer = answer ]
           b == [ TwinCur EXCEPT !.run.answer = twinAnswer ]
       IN /\ Commit(IF a.run.include_sources THEN [ a EXCEPT !.run.pc = "search" ]
                    ELSE Succeed(a))
          /\ TwinCommit(IF b.run.include_sources THEN [ b EXCEPT !.run.pc = "search" ]
                        ELSE Succeed(b))
    /\ UNCHANGED << index, verifier, lm, react_agent, current_session_id, nRuns,
                    calls, toolRet, lv, loop_kwargs >>
    /\ UNCHANGED nlVars
    /\ UNCHANGED healthVars
    /\ UNCHANGED threadVars

\* lines 204 and 273-297: both tool-loops raise
TwinLoopRaises(e) ==
    /\ run.pc = "loop"
    /\ twin.run.pc = "loop"
    /\ Commit(HandleException(Cur, e, "loop"))
    /\ TwinCommit(HandleException(TwinCur, e, "loop"))
    /\ UNCHANGED << index, verifier, lm, react_agent, current_session_id, nRuns,
                    calls, toolRet, lv, loop_kwargs >>
    /\ UNCHANGED nlVars
    /\ UNCHANGED healthVars
    /\ UNCHANGED threadVars

\* line 213: self.nl_search_service.search(query) returns the same list to both
TwinSearchReturns(items) ==
    /\ run.pc = "search"
    /\ twin.run.pc = "search"
    /\ calls' = [ calls EXCEPT !.search = @ + 1 ]
    /\ Commit(AfterItem([ Cur EXCEPT !.run.resource_items = items, !.run.pc = "verify" ]))
    /\ TwinCommit(AfterItem([ TwinCur EXCEPT !.run.resource_items = items,
                                             !.run.pc = "verify" ]))
    /\ UNCHANGED << index, verifier, lm, react_agent, current_session_id, nRuns,
                    toolRet, lv, loop_kwargs >>
    /\ UNCHANGED nlVars
    /\ UNCHANGED healthVars
    /\ UNCHANGED threadVars

\* lines 213 and 273-297: the NL search re-run raises in both
TwinSearchRaises(e) ==
    /\ run.pc = "search"
    /\ twin.run.pc = "search"
    /\ calls' = [ calls EXCEPT !.search = @ + 1 ]
    /\ Commit(HandleException(Cur, e, "search"))
    /\ TwinCommit(HandleException(TwinCur, e, "search"))
    /\ UNCHANGED << index, verifier, lm, react_agent, current_session_id, nRuns,
                    toolRet, lv, loop_kwargs >>
    /\ UNCHANGED nlVars
    /\ UNCHANGED healthVars
    /\ UNCHANGED threadVars

TwinNextItem == Candidates(twin.run.resource_items)[Len(twin.run.verdicts) + 1]

\* lines 217-255: one candidate in each invocation; verify_link does the same for
\* the same url
TwinVerify(outcome, logFails) ==
    /\ run.pc = "verify"
    /\ twin.run.pc = "verify"
    /\ outcome \in VerifyOutcomes(NextItem.link)
    /\ outcome \in VerifyOutcomes(TwinNextItem.link)
    /\ calls' = [ calls EXCEPT !.verify = @ + 1 ]
    /\ Commit(AfterItem(
          IF outcome = "true" THEN OnValid(Cur, NextItem)
          ELSE IF outcome = "false" THEN OnInvalid(Cur, NextItem, logFails)
          ELSE OnVerifyRaise(Cur, NextItem, logFails)))
    /\ TwinCommit(AfterItem(
          IF outcome = "true" THEN OnValid(TwinCur, TwinNextItem)
          ELSE IF outcome = "false" THEN OnInvalid(TwinCur, TwinNextItem, logFails)
          ELSE OnVerifyRaise(TwinCur, TwinNextItem, logFails)))
    /\ UNCHANGED << index, verifier, lm, react_agent, current_session_id, nRuns,
                    toolRet, lv, loop_kwargs >>
    /\ UNCHANGED nlVars
    /\ UNCHANGED healthVars
    /\ UNCHANGED threadVars

TwinNext ==
    \/ \E req \in Requests, other \in MaxTokensInputs : TwinStartRun(req, other)
    \/ \E a, b \in TwinAnswers : TwinLoopReturns(a, b)
    \/ \E e \in ErrorTexts : TwinLoopRaises(e)
    \/ \E items \in SearchResults : TwinSearchReturns(items)
    \/ \E e \in ErrorTexts : TwinSearchRaises(e)
    \/ \E logFails \in BOOLEAN : TwinVerify("true", logFails)
    \/ \E logFails \in BOOLEAN : TwinVerify("false", logFails)
    \/ \E logFails \in BOOLEAN : TwinVerify("raise", logFails)

SpecTwin == Init /\ [][TwinNext]_vars

----------------------------------------------------------------------------
(* The link-verifier specification: verify_internal_link on bounded inputs *)

LinkInit ==
    /\ index \in StoreChoices
    /\ verifier = "store"
    /\ lm = "set"
    /\ react_agent = "set"
    /\ current_session_id = None
    /\ nRuns = 0
    /\ run = IdleRun
    /\ log = << >>
    /\ hlog = << >>
    /\ calls = NoCalls
    /\ http = PendingHttp
    /\ toolRet = NoToolRet
    /\ lv = [ link |-> << >>, store |-> index,
              result |-> verify_internal_link(<< >>, index) ]
    /\ NlStartup
    /\ AppStarted

VerifyInternalLink(link) ==
    /\ lv' = [ link |-> link, store |-> index,
               result |-> verify_internal_link(link, index) ]
    /\ UNCHANGED << index, verifier, lm, react_agent, current_session_id, nRuns,
                    run, log, hlog, calls, http, toolRet >>
    /\ UNCHANGED nlVars
    /\ UNCHANGED appVars

LinkNext == \E link \in LinkInputs : VerifyInternalLink(link)

SpecLink == LinkInit /\ [][LinkNext]_vars

----------------------------------------------------------------------------
(* The natural-language search specification: extract, search, nl_search   *)

NlInit ==
    /\ index = UuidsOf(StartupResources)
    /\ verifier = "store"
    /\ lm = "set"
    /\ react_agent = "set"
    /\ current_session_id = None
    /\ nRuns = 0
    /\ run = IdleRun
    /\ log = << >>
    /\ hlog = << >>
    /\ calls = NoCalls
    /\ http = PendingHttp
    /\ toolRet = NoToolRet
    /\ lv = [ link |-> << >>, store |-> {}, result |-> LinkVerificationResult(FALSE, Nothing, None) ]
    /\ resource_store = StartupResources
    /\ available_tags = get_unique_tags(resource_store)
    /\ \E c \in ExtractorConfigs : extractor = c[1] /\ ambiguity_threshold = c[2]
    /\ default_cap = NL_SEARCH_DEFAULT_RESULT_CAP
    /\ nl = NoCall
    /\ AppStarted

\* NLTagExtractor.extract called on its own
Extract(query, out) ==
    /\ nl.op = "none"
    /\ LET x == extract(extractor, available_tags, ambiguity_threshold, query, out) IN
       /\ nl' = [ NoCall EXCEPT
                    !.op = "extract", !.q = Some(query), !.out = out, !.x = x,
                    !.earlier = nl.earlier ]
       /\ extractor' = x.extractor
    /\ UNCHANGED << resource_store, available_tags, ambiguity_threshold, default_cap >>
    /\ UNCHANGED agentVars
    /\ UNCHANGED appVars

\* NLSearchService.search called on its own (by the agent, with or without a cap)
Search(query, cap, out) ==
    /\ nl.op = "none"
    /\ LET s == search(resource_store, extractor, available_tags, ambiguity_threshold,
                       default_cap, query, cap, out)
       IN /\ nl' = [ NoCall EXCEPT
                       !.op = "search", !.q = Some(query), !.cap = cap, !.out = out,
                       !.x = s.x, !.s = s, !.earlier = nl.earlier ]
          /\ extractor' = s.x.extractor
    /\ UNCHANGED << resource_store, available_tags, ambiguity_threshold, default_cap >>
    /\ UNCHANGED agentVars
    /\ UNCHANGED appVars

\* GET /nl/search
NlSearch(q, out) ==
    /\ nl.op = "none"
    /\ LET r == nl_search(resource_store, extractor, available_tags,
                          ambiguity_threshold, default_cap, q, out)
       IN /\ nl' = [ NoCall EXCEPT
                       !.op = "nl_search", !.q = q, !.out = out,
                       !.x = r.found.x, !.s = r.found, !.http = r.http,
                       !.earlier = nl.earlier ]
          /\ extractor' = IF r.found.branch = "none" THEN extractor
                          ELSE r.found.x.extractor
    /\ UNCHANGED << resource_store, available_tags, ambiguity_threshold, default_cap >>
    /\ UNCHANGED agentVars
    /\ UNCHANGED appVars

\* the caller has taken the result; the next call starts from scratch
NlReturn ==
    /\ nl.op # "none"
    /\ nl' = [ NoCall EXCEPT
                 !.earlier = nl.earlier \/ (nl.x.called /\ nl.x.path = "keyword") ]
    /\ UNCHANGED << resource_store, available_tags, extractor, ambiguity_threshold,
                    default_cap >>
    /\ UNCHANGED agentVars
    /\ UNCHANGED appVars

NlNext ==
    \/ \E query \in NLQueries, out \in ModelOutputsFor(extractor) : Extract(query, out)
    \/ \E query \in SearchQueries, cap \in Caps, out \in ModelOutputsFor(extractor) :
          Search(query, cap, out)
    \/ \E q \in RouteQueries, out \in ModelOutputsFor(extractor) : NlSearch(q, out)
    \/ NlReturn

SpecNL == NlInit /\ [][NlNext]_vars

----------------------------------------------------------------------------
(* The health specification: startup, then /health and /search requests    *)
(* while the backend comes and goes                                        *)

HealthInit ==
    /\ index = UuidsOf(StartupResources)
    /\ verifier = "store"
    /\ lm = "set"
    /\ react_agent = "set"
    /\ current_session_id = None
    /\ nRuns = 0
    /\ run = IdleRun
    /\ log = << >>
    /\ hlog = << >>
    /\ calls = NoCalls
    /\ http = PendingHttp
    /\ toolRet = NoToolRet
    /\ lv = [ link |-> << >>, store |-> {}, result |-> LinkVerificationResult(FALSE, Nothing, None) ]
    /\ NlStartup
    /\ backend \in Backends
    /\ health_snapshot = Nothing
    /\ snapshot_writes = 0
    /\ probes = 0
    /\ nReq = 0
    /\ hreq = NoRequest
    /\ threads = NoThreads
    /\ emitter = << >>
    /\ twin = NoTwin
    /\ loop_kwargs = NoKwargs

\* main.py lines 59-73: lifespan computes the snapshot and stores it
Lifespan ==
    /\ health_snapshot = Nothing
    /\ health_snapshot' = Some(HealthSnapshot(backend, resource_store))
    /\ snapshot_writes' = snapshot_writes + 1
    /\ probes' = probes + get_health_status(backend).checks
    /\ UNCHANGED << backend, nReq, hreq >>
    /\ UNCHANGED threadVars
    /\ UNCHANGED twinVars
    /\ UNCHANGED agentVars
    /\ UNCHANGED nlVars

\* the backend goes down, comes back, loads or unloads the model
BackendChanges(b) ==
    /\ b # backend
    /\ backend' = b
    /\ UNCHANGED << health_snapshot, snapshot_writes, probes, nReq, hreq >>
    /\ UNCHANGED threadVars
    /\ UNCHANGED twinVars
    /\ UNCHANGED agentVars
    /\ UNCHANGED nlVars

\* GET /health
HealthCheck ==
    /\ health_snapshot # Nothing
    /\ nReq < MaxRequests
    /\ LET r == health_check(health_snapshot[1]) IN
       /\ hreq' = [ op |-> "health", status_code |-> r.status_code, body |-> r.body ]
       /\ probes' = probes + r.checks
    /\ nReq' = nReq + 1
    /\ UNCHANGED << backend, health_snapshot, snapshot_writes >>
    /\ UNCHANGED threadVars
    /\ UNCHANGED twinVars
    /\ UNCHANGED agentVars
    /\ UNCHANGED nlVars

\* GET /search?tag=...
SearchByTag(found) ==
    /\ health_snapshot # Nothing
    /\ nReq < MaxRequests
    /\ LET r == search_by_tag(backend, found) IN
       /\ hreq' = [ op |-> "search", status_code |-> r.status_code, body |-> r.body ]
       /\ probes' = probes + r.checks
    /\ nReq' = nReq + 1
    /\ UNCHANGED << backend, health_snapshot, snapshot_writes >>
    /\ UNCHANGED threadVars
    /\ UNCHANGED twinVars
    /\ UNCHANGED agentVars
    /\ UNCHANGED nlVars

HealthNext ==
    \/ Lifespan
    \/ \E b \in Backends : BackendChanges(b)
    \/ HealthCheck
    \/ \E found \in { "ok", "ConnectionError", "error" } : SearchByTag(found)

SpecHealth == HealthInit /\ [][HealthNext]_vars

----------------------------------------------------------------------------
(* Properties of verify_internal_link                                      *)

\* the text after "/resources/"
LinkSuffix(link) == SubSeq(link, Len(RESOURCES_PREFIX) + 1, Len(link))

\* "/resources/" followed by an 8-4-4-4-12 hexadecimal identifier
WellFormedLink(link) ==
    StartsWith(link, RESOURCES_PREFIX) /\ UuidShape(LinkSuffix(link))

\* C10: verify_internal_link(link, index) is valid, with id = the link's suffix and
\* no error, exactly when link is "/resources/" + an 8-4-4-4-12 hexadecimal id of
\* the index; a wrong prefix or a malformed id gives invalid with id null; a
\* well-formed absent id gives invalid with id = the extracted id; every invalid
\* result has an error.
C10_LinkContract ==
    LET r == lv.result
        present == WellFormedLink(lv.link) /\ LinkSuffix(lv.link) \in lv.store
    IN /\ r.valid <=> present
       /\ r.valid => (r.uuid = Some(LinkSuffix(lv.link)) /\ r.error = None)
       /\ ~WellFormedLink(lv.link) => (~r.valid /\ r.uuid = Nothing)
       /\ (WellFormedLink(lv.link) /\ ~present) =>
             (~r.valid /\ r.uuid = Some(LinkSuffix(lv.link)))
       /\ ~r.valid => r.error # None

\* every record of the index round-trips to its own id (the part of C10 that holds)
C10_RoundTrip ==
    \A id \in lv.store :
        verify_internal_link(RESOURCES_PREFIX \o id, lv.store) =
            LinkVerificationResult(TRUE, Some(id), None)

----------------------------------------------------------------------------
(* Properties of ReACTAgent.run and its route                              *)

Done == run.pc = "done"

\* the tool-loop returned an answer and the NL search re-run returned its list
Filtering ==
    /\ run.include_sources
    /\ run.answer # None
    /\ run.raisedAt \notin { "loop", "search" }
    /\ run.pc \in { "verify", "done" }

\* the candidates the claims speak of: the first three items of the re-run
FirstThree(items) == [ i \in 1..Min(3, Len(items)) |-> items[i] ]

CitationOf(item) == [ title |-> item.name, url |-> item.link, summary |-> item.summary ]

RECURSIVE KeptCitations(_, _, _)
\* the citations of the first n candidates whose verdict is "true", in list order
KeptCitations(items, verdicts, n) ==
    IF n = 0 THEN << >>
    ELSE LET before == KeptCitations(items, verdicts, n - 1) IN
         IF verdicts[n] = "true" THEN Append(before, CitationOf(items[n])) ELSE before

RECURSIVE RejectedIdx(_, _)
\* the positions among the first n candidates whose verdict is not "true", ascending
RejectedIdx(verdicts, n) ==
    IF n = 0 THEN << >>
    ELSE LET before == RejectedIdx(verdicts, n - 1) IN
         IF verdicts[n] # "true" THEN Append(before, n) ELSE before

IsAnswer(result) == DOMAIN result \subseteq { "answer", "query", "meta", "resources" }
                    /\ "answer" \in DOMAIN result

IsInternalError(result, query) ==
    /\ DOMAIN result = { "error", "code", "query" }
    /\ result.code = INTERNAL_ERROR
    /\ result.query = query

IsApology(result, query) ==
    /\ DOMAIN result = { "answer", "query", "meta" }
    /\ result.answer = ApologyAnswer
    /\ result.query = query
    /\ result.meta.experimental = TRUE

\* C1: with includeSources and a successful tool-loop, the citation list is exactly
\* the subsequence of the first 3 items of the NL search re-run whose verify_link
\* call returned true, in their original order, and its length is the number of
\* those calls that returned true.
C1_CitationsAreVerifiedSubsequence ==
    Filtering =>
        LET cand == FirstThree(run.resource_items)
            n == Len(run.verdicts)
        IN /\ n <= Len(cand)
           /\ Done => n = Len(cand)
           /\ run.validated_resources = KeptCitations(cand, run.verdicts, n)
           /\ Len(run.validated_resources) =
                 Cardinality({ i \in 1..n : run.verdicts[i] = "true" })
           /\ (Done /\ "resources" \in DOMAIN run.result) =>
                 run.result.resources = KeptCitations(cand, run.verdicts, n)

C1_Witness ==
    /\ Done
    /\ Filtering
    /\ Len(run.resource_items) = 4
    /\ run.verdicts = << "true", "false", "true" >>
    /\ Len(run.result.resources) = 2

\* C2: with includeSources, when every candidate citation fails verification the
\* agent endpoint answers HTTP 404 with error "no valid resources found" and code
\* NO_VALID_RESOURCES, the query echoed; not a 200 without citations.
C2_AllInvalidIs404 ==
    ( /\ Done
      /\ Filtering
      /\ Len(run.verdicts) >= 1
      /\ \A i \in 1..Len(run.verdicts) : run.verdicts[i] # "true" )
    => /\ http.status = 404
       /\ http.body.detail.error = "no valid resources found"
       /\ http.body.detail.code = "NO_VALID_RESOURCES"
       /\ http.body.detail.query = run.query

\* C3: every citation was built from an item whose link verify_link reported valid
\* in this run; with the verifier wired to the Resource Index, its url is
\* "/resources/" + the id of a record of the index.
C3_CitationsOnlyFromVerified ==
    LET cited == IF Done /\ "resources" \in DOMAIN run.result
                 THEN run.result.resources ELSE run.validated_resources
    IN \A k \in 1..Len(cited) :
          /\ \E i \in 1..Len(run.verdicts) :
                /\ run.verdicts[i] = "true"
                /\ cited[k] = CitationOf(run.resource_items[i])
          /\ verifier = "store" =>
                \E id \in index : cited[k].url = RESOURCES_PREFIX \o id

C3_Witness ==
    /\ Done
    /\ verifier = "store"
    /\ "resources" \in DOMAIN run.result
    /\ Len(run.result.resources) = 2
    /\ \E i \in 1..Len(run.verdicts) : run.verdicts[i] = "false"

\* the agent whose construction failed: lm or react_agent is None
ConstructionFailed == lm = None \/ react_agent = None

C4_Inv ==
    ConstructionFailed =>
        /\ run.pc \in { "idle", "done" }
        /\ calls = NoCalls
        /\ Done => IsInternalError(run.result, run.query)

\* C4: after a failed construction every run() returns {error, INTERNAL_ERROR,
\* query} without invoking the model, the NL search or the link verifier, and no
\* call makes the agent available again.
C4_UnavailableForever ==
    /\ []C4_Inv
    /\ [][ConstructionFailed => ConstructionFailed']_vars

C4_Witness ==
    /\ Done
    /\ lm = "set"
    /\ react_agent = None
    /\ nRuns = 2
    /\ IsInternalError(run.result, run.query)

\* the session-start and session-end records of the invocation, in log order
SessionEvents == SelectSeq(log, LAMBDA r : r.event # "tool_action")

Running == run.pc \in { "loop", "search", "verify" }

EndStatuses == { "success", "no_evidence", "tool_error" }

C5_Inv ==
    /\ run.pc = "idle" => (log = << >> /\ run.result = NoResult)
    /\ Running =>
          /\ Len(SessionEvents) = 1
          /\ SessionEvents[1].event = "session_start"
          /\ SessionEvents[1].agent_session_id = run.session_id
          /\ SessionEvents[1].query = run.query
          /\ run.result = NoResult
    /\ Done =>
          /\ Len(SessionEvents) = 2
          /\ SessionEvents[1].event = "session_start"
          /\ SessionEvents[1].agent_session_id = run.session_id
          /\ SessionEvents[2].event = "session_end"
          /\ SessionEvents[2].agent_session_id = run.session_id
          /\ SessionEvents[2].status \in EndStatuses
          /\ run.result # NoResult
          /\ SessionEvents[2].status = "success" <=>
                (run.raisedAt = "none" /\ "answer" \in DOMAIN run.result)
          /\ SessionEvents[2].status = "no_evidence" <=>
                (run.raisedAt # "none" /\ "answer" \in DOMAIN run.result)
          /\ SessionEvents[2].status = "tool_error" <=> "error" \in DOMAIN run.result

C5_Step ==
    /\ << run.pc, run'.pc >> \in
          { << "idle", "idle" >>, << "idle", "loop" >>, << "idle", "done" >>,
            << "loop", "loop" >>, << "loop", "search" >>, << "loop", "done" >>,
            << "search", "verify" >>, << "search", "done" >>,
            << "verify", "verify" >>, << "verify", "done" >>,
            << "done", "idle" >>, << "done", "loop" >>, << "done", "done" >> }
    /\ nRuns' = nRuns =>
          /\ run'.pc # "idle" => run'.session_id = run.session_id
          /\ Done => (run'.pc = "idle" \/ UNCHANGED << run, log >>)
    /\ nRuns' # nRuns =>
          /\ run'.session_id # run.session_id
          /\ current_session_id' = run'.session_id
          /\ \A i \in 1..Len(log') : log'[i].agent_session_id = run'.session_id
          /\ run'.raisedAt = "none"
          /\ run'.validated_resources = << >>
          /\ hlog' = << >>
          /\ ~ConstructionFailed => (run'.pc = "loop" /\ run'.result = NoResult)

\* C5: every invocation of run() goes INIT -> RUNNING -> one terminal status: it
\* logs exactly one session-start, then exactly one session-end whose status is
\* success, no_evidence or tool_error according to this invocation's own outcome,
\* and it returns a result; a new invocation starts from a fresh session with
\* nothing of the previous one's status.
C5_OneStartOneEnd ==
    /\ []C5_Inv
    /\ [][C5_Step]_vars

C5_Witness ==
    /\ Done
    /\ nRuns = 2
    /\ run.raisedAt = "search"
    /\ Len(SessionEvents) = 2
    /\ SessionEvents[2].status = "no_evidence"
    /\ Len(log) > 2

NO_EVIDENCE == << "n","o"," ","e","v","i","d","e","n","c","e" >>

\* the handler's two results
HandlerResultIs(soft) ==
    IF soft
    THEN IsApology(run.result, run.query) /\ "error" \notin DOMAIN run.result
    ELSE IsInternalError(run.result, run.query)

\* C6 as stated: a tool-loop exception whose text contains "no evidence" or
\* "no resources found" (any case) gives the apology, any other gives
\* {error, INTERNAL_ERROR, query}.
C6_Original ==
    (Done /\ run.raisedAt = "loop") =>
        HandlerResultIs(\/ Contains(Lower(run.exc), NO_EVIDENCE)
                        \/ Contains(Lower(run.exc), NO_RESOURCES_FOUND))

\* C6: if the tool-loop raises, run() returns: the fixed apology answer with
\* meta.experimental = true and no error field when the lower-cased exception text
\* contains "no resources found" or "no information", and
\* {error, code = INTERNAL_ERROR, query} for any other exception.
C6_ApologyOrInternalError ==
    /\ Running => run.raisedAt = "none"
    /\ (Done /\ run.raisedAt = "loop") =>
          HandlerResultIs(\/ Contains(Lower(run.exc), NO_RESOURCES_FOUND)
                          \/ Contains(Lower(run.exc), NO_INFORMATION))

C6_Witness ==
    /\ Done
    /\ run.raisedAt = "loop"
    /\ Contains(run.exc, << "N","o"," ","R","e","s","o","u","r","c","e","s" >>)
    /\ IsApology(run.result, run.query)

\* C7: a candidate whose verify_link call raised is omitted from the citations and
\* logged at ERROR; the exception never leaves the filter: the candidates after it
\* are still validated in list order and run() returns the answer.
C7_VerifyRaiseIsInvalid ==
    /\ run.raisedAt \in { "none", "loop", "search" }
    /\ Filtering =>
          LET cand == FirstThree(run.resource_items)
              n == Len(run.verdicts)
              rej == RejectedIdx(run.verdicts, n)
          IN /\ Len(hlog) = Len(rej)
             /\ \A k \in 1..Len(rej) :
                   /\ hlog[k].url = cand[rej[k]].link
                   /\ hlog[k].level =
                         IF run.verdicts[rej[k]] = "raise" THEN "ERROR" ELSE "WARNING"
             /\ \A i \in 1..n :
                   run.verdicts[i] = "raise" =>
                      \A k \in 1..Len(run.validated_resources) :
                         run.validated_resources[k].url # cand[i].link
             /\ (run.pc = "verify") <=> (n < Len(cand))
             /\ Done => (IsAnswer(run.result) /\ run.result.answer = run.answer)

C7_Witness ==
    /\ Done
    /\ Filtering
    /\ run.verdicts = << "raise", "true", "false" >>
    /\ Len(run.result.resources) = 1
    /\ hlog[1].level = "ERROR"
    /\ hlog[2].level = "WARNING"

\* the response of a completed run with citation list cites
ExpectedResponse(answer, query, cites) ==
    IF cites # << >>
    THEN [ answer |-> answer, query |-> query, meta |-> [ experimental |-> TRUE ],
           resources |-> cites ]
    ELSE [ answer |-> answer, query |-> query, meta |-> [ experimental |-> TRUE ] ]

\* a step of the filter in which the WARNING or ERROR log call raised
LogCallRaised ==
    /\ run.pc = "verify"
    /\ Len(hlog') = Len(hlog) + 1
    /\ hlog'[Len(hlog')].raised

C8_Step ==
    LogCallRaised =>
        /\ run'.raisedAt = "none"
        /\ Len(run'.verdicts) = Len(run.verdicts) + 1
        /\ run'.verdicts[Len(run'.verdicts)] # "true"
        /\ run'.validated_resources = run.validated_resources
        /\ run'.answer = run.answer
        /\ IF Len(run'.verdicts) < Len(FirstThree(run.resource_items))
           THEN run'.pc = "verify" /\ run'.result = NoResult
           ELSE /\ run'.pc = "done"
                /\ run'.result =
                      ExpectedResponse(run.answer, run.query, run.validated_resources)

\* C8: when the WARNING or the ERROR log call of the filter itself raises, run()
\* does not raise: the filter goes on as after a log call that succeeded, and the
\* answer and the citation list returned are the ones of the verdicts alone.
C8_LogFailureSuppressed ==
    /\ [](run.raisedAt # "log")
    /\ [][C8_Step]_vars

C8_Witness ==
    /\ Done
    /\ Filtering
    /\ run.verdicts = << "false", "true", "raise" >>
    /\ hlog[1].raised
    /\ hlog[2].raised
    /\ Len(run.result.resources) = 1
    /\ run.result.answer = run.answer

\* C9: a result of run() has the resources field exactly when includeSources is
\* true and the validated citation list is non-empty; the field is never an empty
\* list, and never on an error or an apology result.
C9_ResourcesIffSourcesAndNonEmpty ==
    Done =>
        /\ ("resources" \in DOMAIN run.result) <=>
              (run.include_sources /\ run.validated_resources # << >>)
        /\ "resources" \in DOMAIN run.result =>
              /\ run.result.resources # << >>
              /\ run.result.resources = run.validated_resources
              /\ "error" \notin DOMAIN run.result
              /\ run.result.answer # ApologyAnswer
              /\ run.raisedAt = "none"

C9_Witness ==
    /\ Done
    /\ run.include_sources
    /\ run.raisedAt = "none"
    /\ Len(run.verdicts) = 2
    /\ run.validated_resources = << >>
    /\ "resources" \notin DOMAIN run.result

----------------------------------------------------------------------------
(* Properties of NLTagExtractor.extract                                    *)

\* an extract call has been made, on its own or inside search
Extracted == nl.op \in { "extract", "search" }

\* the same letter, whatever the case
CaseEq(c, d) ==
    c = d \/ \E i \in 1..Len(UpperAlpha) : { c, d } = { UpperAlpha[i], LowerAlpha[i] }

\* tag stands in query as a whole word, letters compared without case
WholeWordIn(tag, query) ==
    \E i \in 1..(Len(query) - Len(tag) + 1) :
        /\ \A k \in 1..Len(tag) : CaseEq(query[i + k - 1], tag[k])
        /\ i = 1 \/ ~IsWordChar(query[i - 1])
        /\ i + Len(tag) - 1 = Len(query) \/ ~IsWordChar(query[i + Len(tag)])

\* the canonical tags with a whole-word match in query, in canonical order
WholeWordTags(query) == SelectSeq(available_tags, LAMBDA t : WholeWordIn(t, query))

\* what the keyword path is to return for query
KeywordContract(r, query) ==
    LET n == Len(WholeWordTags(query)) IN
    /\ r.tags = WholeWordTags(query)
    /\ n = 1 => (r.confidence = 100 /\ ~r.ambiguous)
    /\ n > 1 => (r.confidence = 50 /\ r.ambiguous)
    /\ n = 0 => (r.tags = << >> /\ r.confidence = 0 /\ ~r.ambiguous)

\* C15: the keyword path returns exactly the canonical tags with a case-insensitive
\* whole-word match in the query, in canonical tag-set order; one match gives
\* confidence 1.0 and ambiguous false, several give 0.5 and true, none gives empty
\* tags, 0.0 and false.
C15_KeywordPath ==
    (Extracted /\ nl.x.path = "keyword") => KeywordContract(nl.x.result, nl.q[1])

C15_Witness ==
    /\ nl.op = "extract"
    /\ nl.x.path = "keyword"
    /\ nl.q = Some(<< "A", " ", "b" >>)
    /\ nl.x.result.tags = << TagB, TagA >>
    /\ nl.x.result.ambiguous

\* the trimmed tokens of the model output
ModelTokens(top_tags) ==
    LET pieces == Split(Strip(top_tags), ",")
    IN [ i \in 1..Len(pieces) |-> Strip(pieces[i]) ]

\* C16: every tag of an extract result, LLM path or keyword path, is a canonical
\* tag; on the LLM path the tags are the model's tokens that are canonical tags,
\* in the model's order, the other tokens being dropped.
C16_OnlyCanonicalTags ==
    Extracted =>
        /\ \A i \in 1..Len(nl.x.result.tags) :
              \E j \in 1..Len(available_tags) : nl.x.result.tags[i] = available_tags[j]
        /\ nl.x.path = "llm" =>
              nl.x.result.tags =
                 SelectSeq(ModelTokens(nl.out.top_tags),
                           LAMBDA t : \E j \in 1..Len(available_tags) :
                                         t = available_tags[j])

C16_Witness ==
    /\ nl.op = "extract"
    /\ nl.x.path = "llm"
    /\ Len(ModelTokens(nl.out.top_tags)) = 4
    /\ nl.x.result.tags = << TagAB, TagB, TagA >>

\* C17: on the LLM path at least one valid tag remains; confidence is 1.0 for one
\* tag and 0.7 for more, and ambiguous holds exactly when more than one tag
\* remains and 1.0 - confidence is below the ambiguity threshold.
C17_LlmConfidence ==
    (Extracted /\ nl.x.path = "llm") =>
        LET r == nl.x.result IN
        /\ Len(r.tags) >= 1
        /\ Len(r.tags) = 1 => r.confidence = 100
        /\ Len(r.tags) > 1 => r.confidence = 70
        /\ r.ambiguous <=>
              (Len(r.tags) > 1 /\ (100 - r.confidence) < ambiguity_threshold)

C17_Witness ==
    /\ nl.op = "extract"
    /\ nl.x.path = "llm"
    /\ ambiguity_threshold = 50
    /\ Len(nl.x.result.tags) = 2
    /\ nl.x.result.confidence = 70
    /\ nl.x.result.ambiguous

\* the model call raised, or none of its tokens is a canonical tag
ModelGaveNothing ==
    /\ extractor # None
    /\ \/ nl.out.kind # "ok"
       \/ \A i \in 1..Len(ModelTokens(nl.out.top_tags)) :
             \A j \in 1..Len(available_tags) :
                ModelTokens(nl.out.top_tags)[i] # available_tags[j]

\* C18: when the model call raises or its output has no valid tag, extract returns
\* what the keyword path returns for the query; the model's exception stays
\* inside extract.
C18_FallbackIsKeyword ==
    (Extracted /\ ModelGaveNothing) =>
        /\ nl.x.path = "keyword"
        /\ nl.x.called
        /\ KeywordContract(nl.x.result, nl.q[1])

C18_Witness ==
    /\ nl.op = "extract"
    /\ nl.out.kind = "ConnectionError"
    /\ nl.q = Some(<< "a", " ", "b" >>)
    /\ nl.x.result = [ tags |-> << TagB, TagA >>, confidence |-> 50, ambiguous |-> TRUE ]

----------------------------------------------------------------------------
(* Properties of NLSearchService.search and of the nl_search route         *)

\* a search call has been made, on its own or by the route
Searched == nl.s.branch # "none"

\* the cap in force: the argument when given, an explicit 0 included, else the default
EffectiveCap == IF nl.cap # Nothing THEN nl.cap[1] ELSE NL_SEARCH_DEFAULT_RESULT_CAP

\* how many resources of the store carry one of the extracted tags
MatchingCount ==
    Cardinality({ i \in 1..Len(resource_store) :
                    \E k \in 1..Len(nl.x.result.tags) :
                       resource_store[i].search_tag = nl.x.result.tags[k] })

\* C11: search returns exactly min(effective cap, number of resources matching the
\* extracted tags) items, in the ambiguous branch and in the standard branch,
\* whether the cap is given (0 included) or the default 5 applies.
C11_ExactlyCapItems ==
    (nl.op = "search" /\ nl.x.result.tags # << >>) =>
        /\ nl.s.outcome.kind = "return"
        /\ Len(nl.s.outcome.items) = Min(EffectiveCap, MatchingCount)

\* C12: when the extractor returns no tags, search returns empty items, a
\* non-null message and candidateTags = the first up-to-3 unique tags of the
\* Resource Index, at least one, and looks no resource up.
C12_NoMatchSuggestions ==
    (nl.op = "search" /\ nl.x.result.tags = << >>) =>
        /\ nl.s.outcome.kind = "return"
        /\ nl.s.outcome.items = << >>
        /\ nl.s.outcome.message # Nothing
        /\ nl.s.outcome.candidate_tags =
              SubSeq(get_unique_tags(resource_store), 1,
                     Min(3, Len(get_unique_tags(resource_store))))
        /\ Len(nl.s.outcome.candidate_tags) >= 1
        /\ \A i \in 1..Len(nl.s.trace) : nl.s.trace[i] # "lookup"

\* C13: with a non-empty extraction, search takes the ambiguous branch exactly when
\* the extraction is ambiguous and has more than one tag, and then returns the
\* items with a non-null message and candidateTags = the extracted tags; otherwise
\* it returns message = null and candidateTags = [].
C13_AmbiguousBranch ==
    (nl.op = "search" /\ nl.x.result.tags # << >>) =>
        /\ (nl.s.branch = "ambiguous") <=>
              (nl.x.result.ambiguous /\ Len(nl.x.result.tags) > 1)
        /\ nl.s.outcome.kind = "return"
        /\ IF nl.x.result.ambiguous /\ Len(nl.x.result.tags) > 1
           THEN /\ nl.s.outcome.message # Nothing
                /\ nl.s.outcome.candidate_tags = nl.x.result.tags
           ELSE /\ nl.s.outcome.message = Nothing
                /\ nl.s.outcome.candidate_tags = << >>

\* C14: the summary of every item search builds is the description itself when
\* that has at most 200 characters, and else its first 200 characters followed by
\* "...": 203 characters ending in "...".
C14_SummaryTruncation ==
    Searched =>
        /\ Len(nl.s.items) = Len(nl.s.resources)
        /\ \A i \in 1..Len(nl.s.items) :
              LET d == nl.s.resources[i].description
                  summary == nl.s.items[i].summary
              IN /\ Len(d) <= 200 => summary = d
                 /\ Len(d) > 200 =>
                       /\ Len(summary) = 203
                       /\ \A k \in 1..200 : summary[k] = d[k]
                       /\ \A k \in 201..203 : summary[k] = "."

C14_Witness ==
    /\ nl.op = "search"
    /\ Len(nl.s.items) = 5
    /\ Len(nl.s.resources[2].description) = 201
    /\ Len(nl.s.items[2].summary) = 203
    /\ Len(nl.s.resources[4].description) = 200
    /\ Len(nl.s.items[4].summary) = 200

KEYWORD_REASONING == "Keyword-based matching (fallback mode)"

\* C19: every extraction result carries a reasoning string: on the keyword path the
\* fixed literal when a tag matched and "" when none did; search returns the
\* extractor's reasoning unchanged as its fourth result in every branch.
C19_ReasoningCarried ==
    /\ Extracted =>
          /\ "reasoning" \in DOMAIN nl.x.result
          /\ nl.x.path = "keyword" =>
                nl.x.result.reasoning =
                   IF nl.x.result.tags # << >> THEN KEYWORD_REASONING ELSE ""
    /\ nl.op = "search" =>
          /\ nl.s.outcome.kind = "return"
          /\ nl.s.outcome.reasoning = nl.x.result.reasoning

\* C20: an NL search request during which the model backend is unreachable ends as
\* HTTP 503 with code SERVICE_UNAVAILABLE, never as a 200.
C20_BackendDownIs503 ==
    (nl.op = "nl_search" /\ nl.x.called /\ nl.out.kind = "ConnectionError") =>
        /\ nl.http.status = 503
        /\ nl.http.body.detail.code = "SERVICE_UNAVAILABLE"

----------------------------------------------------------------------------
(* Properties of the health snapshot                                       *)

\* the step is a /health request being served
HealthServed == nReq' = nReq + 1 /\ hreq'.op = "health"

C21_Inv ==
    /\ snapshot_writes <= 1
    /\ (health_snapshot = Nothing) <=> (snapshot_writes = 0)
    /\ nReq > 0 => health_snapshot # Nothing
    /\ hreq.op = "health" =>
          /\ hreq.body = health_snapshot[1]
          /\ hreq.status_code = (IF hreq.body.status = "unhealthy" THEN 503 ELSE 200)

C21_Step ==
    /\ health_snapshot # Nothing =>
          /\ health_snapshot' = health_snapshot
          /\ snapshot_writes' = snapshot_writes
    /\ HealthServed => probes' = probes

----------------------------------------------------------------------------
(* Properties of the agent's deadline                                      *)

\* C22: when the tool-loop has run for longer than the agent timeout, the caller of
\* run() has ended the request with the timeout error (code TOOL_TIMEOUT, HTTP
\* 504): the request is neither still waiting nor answered otherwise.
C22_DeadlineEnforced ==
    run.elapsed > AGENT_TIMEOUT_SEC =>
        /\ run.pc = "done"
        /\ http.status = 504
        /\ http.body.detail.code = TOOL_TIMEOUT

----------------------------------------------------------------------------
(* Properties of the steps of NLSearchService.search                       *)

\* where a step first occurs in the trace of a search call, 0 when it never does
StepAt(name) ==
    IF \E i \in 1..Len(nl.s.trace) : nl.s.trace[i] = name
    THEN CHOOSE i \in 1..Len(nl.s.trace) :
            /\ nl.s.trace[i] = name
            /\ \A j \in 1..(i - 1) : nl.s.trace[j] # name
    ELSE 0

\* the search call has built items to hand back
BuiltItems == Searched /\ nl.s.items # << >>

\* C23: in every NL search that hands back items the steps are tag extraction, then
\* resource lookup, then link verification of every item against the Resource
\* Index, in the ambiguous branch as in the standard branch.
C23_ExtractLookupVerify ==
    BuiltItems =>
        /\ StepAt("extract") = 1
        /\ StepAt("lookup") > StepAt("extract")
        /\ StepAt("verify") > StepAt("lookup")
        /\ Len(nl.s.verified) = Len(nl.s.items)

\* a standard search one of whose items failed link verification
FailedVerification ==
    /\ nl.op = "search"
    /\ nl.s.branch = "standard"
    /\ \E i \in 1..Len(nl.s.verified) : ~nl.s.verified[i]

\* C24: an item whose link fails verification is not removed: the list search
\* returns is the list of built items, whatever the verification results are.
C24_FailedItemKept ==
    FailedVerification =>
        /\ nl.s.outcome.kind = "return"
        /\ nl.s.outcome.items = nl.s.items

----------------------------------------------------------------------------
(* Properties of interleaved run() invocations                             *)

\* C25: run() invocations interleaved on the same agent instance share no mutable
\* state: every tool-action line a search_resources or validate_resource call
\* emits carries the session id of the run it was made in, never another run's.
C25_ToolLinesCarryOwnSession ==
    /\ Len(emitter) = Len(log)
    /\ \A i \in 1..Len(log) :
          log[i].event = "tool_action" => log[i].agent_session_id = emitter[i]

----------------------------------------------------------------------------
(* Properties of the validate_resource tool                                *)

\* something raised inside the tool: verify_link, or the log_tool_action call that
\* follows it (the handler's own log call is only made after one of these)
ValidationRaised(c) == c.outcome = "raise" \/ c.tryLogFails

\* C26: the validate_resource tool returns the verifier's boolean; whenever anything
\* raises during the validation, a failure of the tool's own action logging
\* included, it returns false and no exception reaches the tool-loop.
C26_ValidateFailsClosed ==
    toolRet.tool = "validate_resource" =>
        /\ ~toolRet.raised
        /\ toolRet.value = IF ValidationRaised(toolRet.call) THEN FALSE
                           ELSE (toolRet.call.outcome = "true")

----------------------------------------------------------------------------
(* Properties of the ambiguity flag                                        *)

\* the extractor was built with the default threshold and the tags of the call
\* last made came from the model
LlmTagsAtDefault ==
    /\ ambiguity_threshold = DEFAULT_AMBIGUITY_THRESHOLD
    /\ Extracted
    /\ nl.x.path = "llm"

\* C27: with the default threshold 0.15 no extraction of the LLM path is flagged
\* ambiguous; a search whose tags came from the LLM path never takes the ambiguous
\* branch and always returns message = null and candidateTags = []; the ambiguous
\* branch is taken only with tags of the keyword path.
C27_LlmNeverAmbiguous ==
    /\ LlmTagsAtDefault =>
          /\ ~nl.x.result.ambiguous
          /\ nl.op = "search" =>
                /\ nl.s.branch # "ambiguous"
                /\ nl.s.outcome.kind = "return"
                /\ nl.s.outcome.message = Nothing
                /\ nl.s.outcome.candidate_tags = << >>
    /\ (ambiguity_threshold = DEFAULT_AMBIGUITY_THRESHOLD /\ nl.s.branch = "ambiguous") =>
          nl.x.path = "keyword"

----------------------------------------------------------------------------
(* Properties of the extractor's mode                                      *)

C28_Inv ==
    Extracted =>
        /\ nl.x.called <=> (extractor # None)
        /\ extractor = None => nl.x.path = "keyword"

C28_Step ==
    /\ extractor' = extractor
    /\ available_tags' = available_tags
    /\ ambiguity_threshold' = ambiguity_threshold

\* C28: the extractor's mode is fixed at construction: no extract() call changes it,
\* nor the canonical tags or the threshold; after a model call failed or gave no
\* valid tag only that call falls back to keyword matching, and every later
\* extract() call of an LLM-backed extractor invokes the model again.
C28_ModeFixedAtConstruction == [](C28_Inv) /\ [][C28_Step]_vars

\* an extract call that used the model's tags after an earlier call had fallen back
C28_Witness ==
    /\ Extracted
    /\ nl.earlier
    /\ nl.x.called
    /\ nl.x.path = "llm"

----------------------------------------------------------------------------
(* Properties of a failing NL search re-run                                *)

\* C29: with includeSources and an answer already produced by the tool-loop, an
\* exception of the NL search re-run discards that answer: run() returns
\* {error, code = INTERNAL_ERROR, query}, or the fixed apology when the exception
\* text contains "no resources found" or "no information"; the produced answer is
\* never returned and the result carries no resources.
C29_SearchFailureDiscardsAnswer ==
    (Done /\ run.raisedAt = "search") =>
        /\ run.include_sources
        /\ run.answer # None
        /\ HandlerResultIs(\/ Contains(Lower(run.exc), NO_RESOURCES_FOUND)
                           \/ Contains(Lower(run.exc), NO_INFORMATION))
        /\ "resources" \notin DOMAIN run.result
        /\ "answer" \in DOMAIN run.result => run.result.answer # run.answer

\* a run whose tool-loop answered and whose NL search re-run then raised
C29_Witness ==
    /\ Done
    /\ run.raisedAt = "search"
    /\ run.include_sources
    /\ run.answer # None
    /\ IsInternalError(run.result, run.query)

----------------------------------------------------------------------------
(* Properties of max_tokens                                                *)

\* both invocations have returned
BothDone == run.pc = "done" /\ twin.run.pc = "done"

=============================================================================
